---------------------------- MODULE Spec2Model ----------------------------
(***************************************************************************)
(* Verification model of the Modbus Manager integration:                   *)
(*   - the condition evaluator of template_loader.py,                      *)
(*   - the firmware gating of config_flow.py / template_loader.py,         *)
(*   - the number entity of number.py (coordinator update, write path).    *)
(*                                                                         *)
(* Python strings are modelled as sequences of one-character strings, so   *)
(* that strip / split / find / int() are computed character by character.  *)
(***************************************************************************)
EXTENDS Integers, Sequences, FiniteSets, TLC

(***************************************************************************)
(* Python string primitives                                                *)
(***************************************************************************)
Digits == <<"0", "1", "2", "3", "4", "5", "6", "7", "8", "9">>

IsDigit(c) == \E d \in 1..10 : Digits[d] = c

DigitVal(c) == (CHOOSE d \in 1..10 : Digits[d] = c) - 1

SetMin(S) == CHOOSE x \in S : \A y \in S : x <= y

SetMax(S) == CHOOSE x \in S : \A y \in S : y <= x

\* s[i:i+len(p)] == p
MatchAt(s, p, i) ==
    /\ i >= 1
    /\ i + Len(p) - 1 <= Len(s)
    /\ SubSeq(s, i, i + Len(p) - 1) = p

\* str.find, 1-based; 0 when p does not occur in s
Find(s, p) ==
    LET I == {i \in 1..Len(s) : MatchAt(s, p, i)}
    IN  IF I = {} THEN 0 ELSE SetMin(I)

\* "p in s"
Contains(s, p) == Find(s, p) # 0

StartsWith(s, p) == MatchAt(s, p, 1)

EndsWith(s, p) == Len(p) <= Len(s) /\ MatchAt(s, p, Len(s) - Len(p) + 1)

\* s[i-1:] in Python terms (1-based i here)
From(s, i) == SubSeq(s, i, Len(s))

\* str.split(sep): the parts between the non-overlapping occurrences of sep
RECURSIVE Split(_, _)
Split(s, sep) ==
    LET i == Find(s, sep)
    IN  IF i = 0
        THEN <<s>>
        ELSE <<SubSeq(s, 1, i - 1)>> \o Split(From(s, i + Len(sep)), sep)

\* str.strip(chars) for a set of characters
RECURSIVE LStripChars(_, _)
LStripChars(s, chars) ==
    IF Len(s) > 0 /\ Head(s) \in chars
    THEN LStripChars(Tail(s), chars)
    ELSE s

RECURSIVE RStripChars(_, _)
RStripChars(s, chars) ==
    IF Len(s) > 0 /\ s[Len(s)] \in chars
    THEN RStripChars(SubSeq(s, 1, Len(s) - 1), chars)
    ELSE s

StripChars(s, chars) == RStripChars(LStripChars(s, chars), chars)

Whitespace == {" "}

\* str.strip()
Strip(s) == StripChars(s, Whitespace)

Quotes == {"'", "\""}

\* str.lower() on the letters the model uses
LowerChar(c) ==
    CASE c = "T" -> "t"
      [] c = "F" -> "f"
      [] c = "R" -> "r"
      [] c = "U" -> "u"
      [] c = "E" -> "e"
      [] c = "A" -> "a"
      [] c = "L" -> "l"
      [] c = "S" -> "s"
      [] OTHER -> c

Lower(s) == [i \in 1..Len(s) |-> LowerChar(s[i])]

\* value of a run of decimal digits
RECURSIVE DigitsVal(_)
DigitsVal(s) ==
    IF Len(s) = 0 THEN 0
    ELSE 10 * DigitsVal(SubSeq(s, 1, Len(s) - 1)) + DigitVal(s[Len(s)])

AllDigits(s) == Len(s) > 0 /\ \A i \in 1..Len(s) : IsDigit(s[i])

\* int(str): optional surrounding whitespace, optional sign, decimal digits;
\* anything else raises ValueError (ok = FALSE)
ParseInt(s0) ==
    LET s == Strip(s0)
        signed == Len(s) > 0 /\ s[1] \in {"+", "-"}
        body == IF signed THEN Tail(s) ELSE s
    IN  IF AllDigits(body)
        THEN [ok |-> TRUE,
              v |-> IF signed /\ s[1] = "-" THEN 0 - DigitsVal(body)
                    ELSE DigitsVal(body)]
        ELSE [ok |-> FALSE, v |-> 0]

\* str(int)
RECURSIVE NatToStr(_)
NatToStr(n) ==
    IF n < 10 THEN <<Digits[n + 1]>>
    ELSE NatToStr(n \div 10) \o <<Digits[(n % 10) + 1]>>

IntToStr(n) == IF n < 0 THEN <<"-">> \o NatToStr(0 - n) ELSE NatToStr(n)

(***************************************************************************)
(* Python values held by dynamic_config: None, int, bool, str, list of str *)
(***************************************************************************)
PyNone == [t |-> "none", i |-> 0, b |-> FALSE, s |-> <<>>, l |-> <<>>]

PyInt(n) == [t |-> "int", i |-> n, b |-> FALSE, s |-> <<>>, l |-> <<>>]

PyBool(x) == [t |-> "bool", i |-> 0, b |-> x, s |-> <<>>, l |-> <<>>]

PyStr(x) == [t |-> "str", i |-> 0, b |-> FALSE, s |-> x, l |-> <<>>]

\* a list of strings
PyList(x) == [t |-> "list", i |-> 0, b |-> FALSE, s |-> <<>>, l |-> x]

\* dict.get(key): None when the key is absent
DictGet(d, key) == IF key \in DOMAIN d THEN d[key] ELSE PyNone

\* dict.get(key, default)
DictGetDefault(d, key, default) == IF key \in DOMAIN d THEN d[key] ELSE default

\* bool(value)
PyTruthy(v) ==
    CASE v.t = "none" -> FALSE
      [] v.t = "int" -> v.i # 0
      [] v.t = "bool" -> v.b
      [] v.t = "str" -> Len(v.s) > 0
      [] v.t = "list" -> Len(v.l) > 0

\* int(value): ok = FALSE stands for ValueError / TypeError
PyToInt(v) ==
    CASE v.t = "int" -> [ok |-> TRUE, v |-> v.i]
      [] v.t = "bool" -> [ok |-> TRUE, v |-> IF v.b THEN 1 ELSE 0]
      [] v.t = "str" -> ParseInt(v.s)
      [] OTHER -> [ok |-> FALSE, v |-> 0]

RECURSIVE ListRepr(_)
ListRepr(l) ==
    IF Len(l) = 0 THEN <<>>
    ELSE <<"'">> \o Head(l) \o <<"'">> \o
         (IF Len(l) > 1 THEN <<",", " ">> ELSE <<>>) \o ListRepr(Tail(l))

\* str(value)
PyToStr(v) ==
    CASE v.t = "none" -> <<"N", "o", "n", "e">>
      [] v.t = "int" -> IntToStr(v.i)
      [] v.t = "bool" -> IF v.b THEN <<"T", "r", "u", "e">>
                         ELSE <<"F", "a", "l", "s", "e">>
      [] v.t = "str" -> v.s
      [] v.t = "list" -> <<"[">> \o ListRepr(v.l) \o <<"]">>

(***************************************************************************)
(* template_loader.py: _evaluate_single_condition                          *)
(* Results are "true", "false", or "TypeError" for an exception that the   *)
(* function does not catch.                                                *)
(***************************************************************************)
PyBoolResult(x) == IF x THEN "true" ELSE "false"

SeqContains(l, x) == \E k \in 1..Len(l) : l[k] = x

RECURSIVE CleanValues(_)
CleanValues(parts) ==
    IF Len(parts) = 0 THEN <<>>
    ELSE (IF Strip(Head(parts)) # <<>>
          THEN <<StripChars(Strip(Head(parts)), Quotes)>>
          ELSE <<>>) \o CleanValues(Tail(parts))

\* the required_values list of the "in" / "not in" branches
RequiredValues(required_values_str) ==
    LET inner == IF /\ StartsWith(required_values_str, <<"[">>)
                    /\ EndsWith(required_values_str, <<"]">>)
                 THEN SubSeq(required_values_str, 2,
                             Len(required_values_str) - 1)
                 ELSE required_values_str
    IN  CleanValues(Split(inner, <<",">>))

\* any(value in actual_values ...) resp. str(actual_value) in required_values
MembershipTest(actual_value, required_values) ==
    IF actual_value.t = "list"
    THEN \E k \in 1..Len(required_values) :
            SeqContains(actual_value.l, required_values[k])
    ELSE SeqContains(required_values, PyToStr(actual_value))

EvalIn(condition, dynamic_config, sep, negate) ==
    LET parts == Split(condition, sep)
        variable_name == Strip(parts[1])
        required_values == RequiredValues(Strip(parts[2]))
        actual_value == DictGet(dynamic_config, variable_name)
        member == MembershipTest(actual_value, required_values)
    IN  IF Len(parts) = 2
        THEN PyBoolResult(IF negate THEN ~member ELSE member)
        ELSE "true"

\* variant of EqualityOperands without the boolean step
EqualityOperands_NoBool(required_value_str, actual_value) ==
    LET req_int == ParseInt(required_value_str)
        act_int == IF actual_value.t = "none"
                   THEN [ok |-> TRUE, v |-> 0]
                   ELSE PyToInt(actual_value)
    IN  IF req_int.ok /\ act_int.ok
        THEN [kind |-> "int", equal |-> act_int.v = req_int.v]
        ELSE [kind |-> "str",
              equal |-> (IF actual_value.t = "none" THEN <<>>
                         ELSE PyToStr(actual_value)) = required_value_str]

\* the "==" and "!=" branches: boolean, then integer, then string comparison
EqualityOperands(required_value_str, actual_value) ==
    LET req_int == ParseInt(required_value_str)
        act_int == IF actual_value.t = "none"
                   THEN [ok |-> TRUE, v |-> 0]
                   ELSE PyToInt(actual_value)
    IN  IF Lower(required_value_str) \in
              {<<"t", "r", "u", "e">>, <<"f", "a", "l", "s", "e">>}
        THEN [kind |-> "bool",
              equal |-> (IF actual_value.t = "none" THEN FALSE
                         ELSE PyTruthy(actual_value))
                        = (Lower(required_value_str) = <<"t", "r", "u", "e">>)]
        ELSE IF req_int.ok /\ act_int.ok
        THEN [kind |-> "int", equal |-> act_int.v = req_int.v]
        ELSE [kind |-> "str",
              equal |-> (IF actual_value.t = "none" THEN <<>>
                         ELSE PyToStr(actual_value)) = required_value_str]

EvalEquality(condition, dynamic_config, sep, negate) ==
    LET parts == Split(condition, sep)
        variable_name == Strip(parts[1])
        required_value_str == StripChars(Strip(parts[2]), Quotes)
        actual_value == DictGet(dynamic_config, variable_name)
        eq == EqualityOperands(required_value_str, actual_value).equal
    IN  IF Len(parts) = 2
        THEN PyBoolResult(IF negate THEN ~eq ELSE eq)
        ELSE "true"

\* variant of EvalOrder that compares with ">" whatever the operator
EvalOrder_AlwaysStrict(condition, dynamic_config, sep, strict) ==
    LET parts == Split(condition, sep)
        variable_name == Strip(parts[1])
        required == ParseInt(Strip(parts[2]))
        actual_value == DictGetDefault(dynamic_config, variable_name, PyInt(0))
        actual == PyToInt(actual_value)
    IN  IF Len(parts) # 2 THEN "true"
        ELSE IF ~required.ok THEN "false"
        ELSE IF actual_value.t = "str" /\ ~actual.ok THEN "false"
        ELSE IF actual_value.t \in {"none", "list"} THEN "TypeError"
        ELSE PyBoolResult(actual.v > required.v)

\* the ">=" and ">" branches
EvalOrder(condition, dynamic_config, sep, strict) ==
    LET parts == Split(condition, sep)
        variable_name == Strip(parts[1])
        required == ParseInt(Strip(parts[2]))
        actual_value == DictGetDefault(dynamic_config, variable_name, PyInt(0))
        actual == PyToInt(actual_value)
    IN  IF Len(parts) # 2 THEN "true"
        ELSE IF ~required.ok THEN "false"
        ELSE IF actual_value.t = "str" /\ ~actual.ok THEN "false"
        ELSE IF actual_value.t \in {"none", "list"} THEN "TypeError"
        ELSE PyBoolResult(IF strict THEN actual.v > required.v
                          ELSE actual.v >= required.v)

_evaluate_single_condition(condition0, dynamic_config) ==
    LET condition == Strip(condition0)
    IN  IF Contains(condition, <<" ", "n", "o", "t", " ", "i", "n", " ">>)
        THEN EvalIn(condition, dynamic_config,
                    <<" ", "n", "o", "t", " ", "i", "n", " ">>, TRUE)
        ELSE IF Contains(condition, <<" ", "i", "n", " ">>)
        THEN EvalIn(condition, dynamic_config, <<" ", "i", "n", " ">>, FALSE)
        ELSE IF Contains(condition, <<"!", "=">>)
        THEN EvalEquality(condition, dynamic_config, <<"!", "=">>, TRUE)
        ELSE IF Contains(condition, <<"=", "=">>)
        THEN EvalEquality(condition, dynamic_config, <<"=", "=">>, FALSE)
        ELSE IF Contains(condition, <<">", "=">>)
        THEN EvalOrder(condition, dynamic_config, <<">", "=">>, FALSE)
        ELSE IF Contains(condition, <<">">>)
        THEN EvalOrder(condition, dynamic_config, <<">">>, TRUE)
        ELSE "true"

(***************************************************************************)
(* template_loader.py: _evaluate_condition                                 *)
(***************************************************************************)
\* depth[i]: parenthesis depth after reading character i
RECURSIVE DepthAfter(_, _)
DepthAfter(s, i) ==
    IF i = 0 THEN 0
    ELSE DepthAfter(s, i - 1)
         + (IF s[i] = "(" THEN 1 ELSE IF s[i] = ")" THEN -1 ELSE 0)

\* the first "(" is matched by the last ")" (is_outer)
IsOuter(s) ==
    ~ \E i \in 1..(Len(s) - 1) : s[i] = ")" /\ DepthAfter(s, i) = 0

RECURSIVE RemoveOuterParens(_)
RemoveOuterParens(s) ==
    IF StartsWith(s, <<"(">>) /\ EndsWith(s, <<")">>) /\ IsOuter(s)
    THEN RemoveOuterParens(Strip(SubSeq(s, 2, Len(s) - 1)))
    ELSE s

\* variant of TopLevel that does not track the parenthesis depth
TopLevel_IgnoreDepth(s, sep) == {i \in 1..Len(s) : MatchAt(s, sep, i)}

\* positions (1-based index of the leading space) of sep at depth 0
TopLevel(s, sep) ==
    {i \in 1..Len(s) : /\ s[i] \notin {"(", ")"}
                       /\ DepthAfter(s, i) = 0
                       /\ MatchAt(s, sep, i)}

OrSep == <<" ", "o", "r", " ">>

AndSep == <<" ", "a", "n", "d", " ">>

RECURSIVE _evaluate_condition(_, _)
_evaluate_condition(condition0, dynamic_config) ==
    LET condition == RemoveOuterParens(Strip(condition0))
        ors == TopLevel(condition, OrSep)
        \* an " and " is recorded only where the " or " test failed
        ands == TopLevel(condition, AndSep)
        or_i == SetMax(ors)
        and_i == SetMin(ands)
        Binary(i, seplen, shortcut) ==
            LET left == _evaluate_condition(
                            Strip(SubSeq(condition, 1, i - 1)), dynamic_config)
            IN  IF left = shortcut \/ left = "TypeError" THEN left
                ELSE _evaluate_condition(
                         Strip(From(condition, i + seplen)), dynamic_config)
    IN  IF ors # {} THEN Binary(or_i, 4, "true")
        ELSE IF ands # {} THEN Binary(and_i, 5, "false")
        ELSE _evaluate_single_condition(condition, dynamic_config)

(***************************************************************************)
(* Inputs of the condition evaluator: comparisons "var op literal" and     *)
(* expressions built from them with " and ", " or " and parentheses.       *)
(***************************************************************************)
VarNames == << <<"a">>, <<"b">> >>

Operators ==
    << <<"=", "=">>, <<"!", "=">>, <<">", "=">>, <<">">>,
       <<"i", "n">>, <<"n", "o", "t", " ", "i", "n">>,
       <<"<">>, <<"=">>, <<"=", ">">> >>

OpEq == 1
OpNe == 2
OpGe == 3
OpGt == 4
OpIn == 5
OpNotIn == 6

\* operators the evaluator does not know
UnknownOps == {7, 8, 9}

\* literal texts with what they denote: kind "int" (value i), "bool" (b),
\* "str", "list", or "multi" (a further operator and operand); s is the text
\* without surrounding quotes
Lit(text, kind, i, b, str, quoted) ==
    [text |-> text, kind |-> kind, i |-> i, b |-> b, s |-> str,
     quoted |-> quoted]

Literals ==
    << Lit(<<"3">>, "int", 3, FALSE, <<"3">>, FALSE),
       Lit(<<"0">>, "int", 0, FALSE, <<"0">>, FALSE),
       Lit(<<"-", "1">>, "int", -1, FALSE, <<"-", "1">>, FALSE),
       Lit(<<"1">>, "int", 1, FALSE, <<"1">>, FALSE),
       Lit(<<"2">>, "int", 2, FALSE, <<"2">>, FALSE),
       Lit(<<"5">>, "int", 5, FALSE, <<"5">>, FALSE),
       Lit(<<"'", "3", "'">>, "int", 3, FALSE, <<"3">>, TRUE),
       Lit(<<"t", "r", "u", "e">>, "bool", 0, TRUE, <<"t", "r", "u", "e">>, FALSE),
       Lit(<<"F", "a", "l", "s", "e">>, "bool", 0, FALSE,
           <<"F", "a", "l", "s", "e">>, FALSE),
       Lit(<<"a", "b", "c">>, "str", 0, FALSE, <<"a", "b", "c">>, FALSE),
       Lit(<<"'", "a", "b", "c", "'">>, "str", 0, FALSE,
           <<"a", "b", "c">>, TRUE),
       Lit(<<"[", "3", ",", " ", "'", "a", "b", "c", "'", "]">>, "list",
           0, FALSE, <<"[", "3", ",", " ", "'", "a", "b", "c", "'", "]">>,
           FALSE),
       Lit(<<"1", " ", "=", "=", " ", "2">>, "multi", 0, FALSE, <<>>, FALSE) >>

NoAtom == [v |-> 0, o |-> 0, l |-> 0]

Atom(v, o, l) == [v |-> v, o |-> o, l |-> l]

AtomText(a) ==
    VarNames[a.v] \o <<" ">> \o Operators[a.o] \o <<" ">> \o Literals[a.l].text

\* expression trees
Leaf(a) == [op |-> "atom", a |-> a, l |-> <<>>, r |-> <<>>]

Bin(op, l, r) == [op |-> op, a |-> NoAtom, l |-> l, r |-> r]

RECURSIVE Trees(_, _)
Trees(atoms, n) ==
    IF n = 1 THEN {Leaf(a) : a \in atoms}
    ELSE UNION {{Bin(op, l, r) : op \in {"and", "or"},
                                 l \in Trees(atoms, k),
                                 r \in Trees(atoms, n - k)} : k \in 1..(n - 1)}

Paren(s) == <<"(">> \o s \o <<")">>

\* the text of a tree.  style 0: parentheses only where precedence needs
\* them (an "or" below an "and"); style 1: around every operand that is
\* itself an "and"/"or"; style 2: around every node, the root included.
RECURSIVE Render(_, _, _)
Render(t, style, parentOp) ==
    IF t.op = "atom"
    THEN IF style = 2 THEN Paren(AtomText(t.a)) ELSE AtomText(t.a)
    ELSE LET body == Render(t.l, style, t.op)
                     \o (IF t.op = "and" THEN AndSep ELSE OrSep)
                     \o Render(t.r, style, t.op)
         IN  IF \/ style = 2
                \/ style = 1 /\ parentOp # "root"
                \/ style = 0 /\ parentOp = "and" /\ t.op = "or"
             THEN Paren(body)
             ELSE body

MaxLeaves == 3

\* the three comparisons of the compound expressions: a == 1, a == 2, b >= 5
CompoundAtoms == {Atom(1, OpEq, 4), Atom(1, OpEq, 5), Atom(2, OpGe, 6)}

SingleAtoms ==
    {Atom(1, o, l) : o \in 1..Len(Operators), l \in 1..Len(Literals)}

AValues ==
    {PyInt(3), PyInt(0), PyInt(-1), PyInt(1), PyInt(5),
     PyBool(TRUE), PyBool(FALSE),
     PyStr(<<"3">>), PyStr(<<"a", "b", "c">>), PyStr(<<"t", "r", "u", "e">>),
     PyStr(<<>>), PyList(<< <<"a", "b", "c">> >>)}

Config(av, bv) == (<<"a">> :> av) @@ (<<"b">> :> bv)

\* configurations for single comparisons: a of any type, or absent
SingleConfigs ==
    {Config(av, PyInt(5)) : av \in AValues} \cup {(<<"b">> :> PyInt(5))}

\* configurations for compound expressions
CompoundConfigs ==
    {Config(PyInt(x), PyInt(y)) : x \in {1, 2, 3}, y \in {4, 5}}

(***************************************************************************)
(* Version strings: packaging.version.parse, Version comparison and str(), *)
(* for versions of the form [v]N(.N)*; any other text is InvalidVersion.   *)
(***************************************************************************)
\* characters in code point order, for Python's string comparison
AsciiOrder ==
    <<" ", "'", "-", ".", "0", "1", "2", "3", "4", "5", "6", "7", "8", "9",
      "=", ">", "H", "S", "_", "a", "b", "c", "v">>

Ord(c) == CHOOSE k \in 1..Len(AsciiOrder) : AsciiOrder[k] = c

\* a < b for two Python strings
RECURSIVE StrLess(_, _)
StrLess(a, b) ==
    IF Len(b) = 0 THEN FALSE
    ELSE IF Len(a) = 0 THEN TRUE
    ELSE IF Head(a) # Head(b) THEN Ord(Head(a)) < Ord(Head(b))
    ELSE StrLess(Tail(a), Tail(b))

RECURSIVE ReleaseOf(_)
ReleaseOf(parts) ==
    IF Len(parts) = 0 THEN <<>>
    ELSE <<DigitsVal(Head(parts))>> \o ReleaseOf(Tail(parts))

\* version.parse(text): ok = FALSE stands for InvalidVersion
ParseVersion(text) ==
    LET t == Strip(text)
        body == IF StartsWith(t, <<"v">>) THEN Tail(t) ELSE t
        parts == Split(body, <<".">>)
    IN  IF \A k \in 1..Len(parts) : AllDigits(parts[k])
        THEN [ok |-> TRUE, release |-> ReleaseOf(parts)]
        ELSE [ok |-> FALSE, release |-> <<>>]

\* the comparison key of a Version: the release without trailing zeros
RECURSIVE CmpKey(_)
CmpKey(release) ==
    IF Len(release) > 0 /\ release[Len(release)] = 0
    THEN CmpKey(SubSeq(release, 1, Len(release) - 1))
    ELSE release

\* Python tuple comparison a < b
RECURSIVE TupleLess(_, _)
TupleLess(a, b) ==
    IF Len(b) = 0 THEN FALSE
    ELSE IF Len(a) = 0 THEN TRUE
    ELSE IF Head(a) # Head(b) THEN Head(a) < Head(b)
    ELSE TupleLess(Tail(a), Tail(b))

VersionLess(v, w) == TupleLess(CmpKey(v.release), CmpKey(w.release))

VersionLessEq(v, w) == ~VersionLess(w, v)

\* str(Version): the release segments as integers joined by "."
RECURSIVE VersionStr(_)
VersionStr(release) ==
    IF Len(release) = 0 THEN <<>>
    ELSE IntToStr(Head(release))
         \o (IF Len(release) > 1 THEN <<".">> ELSE <<>>)
         \o VersionStr(Tail(release))

(***************************************************************************)
(* config_flow.py: _should_include_sensor, _apply_firmware_modifications,  *)
(* _find_applicable_firmware_version; template_loader.py:                  *)
(* _should_include_sensor.                                                 *)
(*                                                                         *)
(* A sensor is [unique_id, address, firmware_min_version, condition,       *)
(* other]; an empty firmware_min_version / condition stands for an absent  *)
(* key.  The filters that look at the sensor's name and group (phase,      *)
(* MPPT, string, module, battery, connection type) are not computed:       *)
(* other names the one of them that excludes the sensor, "none" if none    *)
(* does.                                                                   *)
(***************************************************************************)
Outcome(include, reason) == [include |-> include, reason |-> reason]

\* variant of FirmwareExcludes that always compares the strings
FirmwareExcludes_StringOnly(sensor_firmware_min, firmware_version) ==
    StrLess(firmware_version, sensor_firmware_min)

\* the firmware_min_version check; TRUE when it excludes the sensor
FirmwareExcludes(sensor_firmware_min, firmware_version) ==
    LET current_ver == ParseVersion(firmware_version)
        min_ver == ParseVersion(sensor_firmware_min)
    IN  IF current_ver.ok /\ min_ver.ok
        THEN VersionLess(current_ver, min_ver)
        ELSE \* InvalidVersion: string comparison
             StrLess(firmware_version, sensor_firmware_min)

\* ModbusManagerConfigFlow._should_include_sensor
ConfigFlowShouldInclude(sensor, firmware_version, dynamic_config) ==
    LET cond == IF sensor.condition # <<>>
                THEN _evaluate_condition(sensor.condition, dynamic_config)
                ELSE "true"
    IN  IF /\ sensor.firmware_min_version # <<>>
           /\ firmware_version # <<>>
           /\ FirmwareExcludes(sensor.firmware_min_version, firmware_version)
        THEN Outcome(FALSE, "firmware")
        ELSE IF cond = "TypeError" THEN Outcome(FALSE, "TypeError")
        ELSE IF cond = "false" THEN Outcome(FALSE, "condition")
        ELSE IF sensor.other \in {"name", "module"}
        THEN Outcome(FALSE, sensor.other)
        ELSE Outcome(TRUE, "none")

\* the legacy condition parsing of template_loader._should_include_sensor;
\* "exclude", "pass" or "TypeError"
LegacyCondition(condition, dynamic_config) ==
    LET eq_parts == Split(condition, <<"=", "=">>)
        eq_required == Strip(eq_parts[2])
        eq_actual == DictGet(dynamic_config, Strip(eq_parts[1]))
        ge_parts == Split(condition, <<">", "=">>)
        ge_required_str == Strip(ge_parts[2])
        ge_required == ParseInt(ge_required_str)
        ge_name == Strip(ge_parts[1])
        ge_actual == DictGetDefault(dynamic_config, ge_name, PyInt(0))
        ge_actual_int == PyToInt(ge_actual)
    IN  IF condition = <<>> \/ Contains(condition, OrSep) THEN "pass"
        ELSE IF Contains(condition, <<"=", "=">>)
        THEN IF Len(eq_parts) # 2 THEN "pass"
             ELSE IF EqualityOperands(eq_required, eq_actual).equal
             THEN "pass" ELSE "exclude"
        ELSE IF Contains(condition, <<">", "=">>)
        THEN IF Len(ge_parts) # 2 THEN "pass"
             ELSE IF ge_required.ok /\ (ge_actual.t # "str" \/ ge_actual_int.ok)
             THEN IF ge_actual.t \in {"none", "list"} THEN "TypeError"
                  ELSE IF ge_actual_int.v < ge_required.v
                  THEN "exclude" ELSE "pass"
             ELSE IF StrLess(PyToStr(DictGetDefault(dynamic_config, ge_name,
                                                    PyStr(<<>>))),
                             ge_required_str)
             THEN "exclude" ELSE "pass"
        ELSE "pass"

\* template_loader._should_include_sensor
LoaderShouldInclude(sensor, firmware_version, dynamic_config) ==
    LET cond == IF sensor.condition # <<>>
                THEN _evaluate_condition(sensor.condition, dynamic_config)
                ELSE "true"
        legacy == LegacyCondition(sensor.condition, dynamic_config)
    IN  IF sensor.other = "module" THEN Outcome(FALSE, "module")
        ELSE IF cond = "TypeError" THEN Outcome(FALSE, "TypeError")
        ELSE IF cond = "false" THEN Outcome(FALSE, "condition")
        ELSE IF legacy = "TypeError" THEN Outcome(FALSE, "TypeError")
        ELSE IF legacy = "exclude" THEN Outcome(FALSE, "legacy_condition")
        ELSE IF sensor.other = "name" THEN Outcome(FALSE, "name")
        ELSE IF /\ sensor.firmware_min_version # <<>>
                /\ FirmwareExcludes(sensor.firmware_min_version,
                                    firmware_version)
        THEN Outcome(FALSE, "firmware")
        ELSE IF sensor.other = "connection" THEN Outcome(FALSE, "connection")
        ELSE Outcome(TRUE, "none")

\* index of the first maximal element of a sequence of parsed versions (max())
FirstMax(versions) ==
    CHOOSE k \in 1..Len(versions) :
        /\ \A j \in 1..Len(versions) : ~VersionLess(versions[k], versions[j])
        /\ \A j \in 1..(k - 1) : VersionLess(versions[j], versions[k])

\* the parsed versions of the keys that are valid and <= current_ver
RECURSIVE ApplicableVersions(_, _)
ApplicableVersions(available_versions, current_ver) ==
    IF Len(available_versions) = 0 THEN <<>>
    ELSE LET ver == ParseVersion(Head(available_versions))
         IN  (IF ver.ok /\ VersionLessEq(ver, current_ver)
              THEN <<ver>> ELSE <<>>)
             \o ApplicableVersions(Tail(available_versions), current_ver)

\* ModbusManagerConfigFlow._find_applicable_firmware_version; <<>> is None
_find_applicable_firmware_version(current_version, available_versions) ==
    LET current_ver == ParseVersion(current_version)
        applicable_versions ==
            ApplicableVersions(available_versions, current_ver)
    IN  IF Len(available_versions) = 0 THEN <<>>
        ELSE IF current_ver.ok
        THEN IF Len(applicable_versions) > 0
             THEN VersionStr(
                      applicable_versions[FirstMax(applicable_versions)].release)
             ELSE <<>>
        ELSE IF SeqContains(available_versions, current_version)
        THEN current_version
        ELSE <<>>

\* a replacements dict is a sequence of [key, config] in insertion order
ReplacementKeys(replacements) ==
    [k \in 1..Len(replacements) |-> replacements[k].key]

\* replacements.get(applicable_version, {})
ReplacementGet(replacements, applicable_version) ==
    IF \E k \in 1..Len(replacements) : replacements[k].key = applicable_version
    THEN replacements[CHOOSE k \in 1..Len(replacements) :
                          replacements[k].key = applicable_version].config
    ELSE <<>>

\* modified_sensor[param] = value for every param but "description"
ApplyParams(sensor, replacement_config) ==
    [param \in DOMAIN sensor \cup (DOMAIN replacement_config \ {"description"})
        |-> IF param \in DOMAIN replacement_config /\ param # "description"
            THEN replacement_config[param]
            ELSE sensor[param]]

\* ModbusManagerConfigFlow._apply_firmware_modifications
_apply_firmware_modifications(sensor, firmware_version, replacements_by_id) ==
    LET replacements == replacements_by_id[sensor.unique_id]
        applicable_version ==
            _find_applicable_firmware_version(firmware_version,
                                              ReplacementKeys(replacements))
    IN  IF /\ sensor.unique_id \in DOMAIN replacements_by_id
           /\ Len(replacements) > 0
           /\ applicable_version # <<>>
        THEN ApplyParams(sensor,
                         ReplacementGet(replacements, applicable_version))
        ELSE sensor

(***************************************************************************)
(* Inputs of the firmware gating                                           *)
(***************************************************************************)
\* version texts with the release they denote (<<>>: not a semantic version)
Ver(text, semantic, release) ==
    [text |-> text, semantic |-> semantic, release |-> release]

VersionTable ==
    << Ver(<<"1", ".", "5">>, TRUE, <<1, 5>>),
       Ver(<<"2", ".", "0">>, TRUE, <<2, 0>>),
       Ver(<<"2", ".", "1">>, TRUE, <<2, 1>>),
       Ver(<<"1", ".", "1", "0">>, TRUE, <<1, 10>>),
       Ver(<<"2", ".", "0", ".", "0">>, TRUE, <<2, 0, 0>>),
       Ver(<<"1", ".", "9">>, TRUE, <<1, 9>>),
       Ver(<<"1", ".", "0">>, TRUE, <<1, 0>>),
       Ver(<<"1", ".", "0", "5">>, TRUE, <<1, 5>>),
       Ver(<<"S", "H", "_", "2">>, FALSE, <<>>),
       Ver(<<"S", "H", "_", "1", "0">>, FALSE, <<>>) >>

\* firmware versions a device reports
DeviceFirmware == {VersionTable[k].text : k \in {1, 2, 3, 4, 5, 9}}

\* firmware_min_version of a sensor; <<>>: none
MinVersions == {<<>>} \cup {VersionTable[k].text : k \in {2, 6, 10}}

\* keys of a sensor_replacements entry
KeyTexts ==
    << VersionTable[7].text, VersionTable[2].text, VersionTable[8].text,
       VersionTable[9].text >>

MaxKeys == 2

\* the replacement of key k moves the register to address 200 + k
ReplacementFor(k) ==
    [key |-> KeyTexts[k],
     config |-> [address |-> 200 + k, description |-> "replacement"]]

RECURSIVE KeySeqs(_)
KeySeqs(n) ==
    IF n = 0 THEN {<<>>}
    ELSE {<<>>} \cup
         {Append(q, k) : q \in {x \in KeySeqs(n - 1) : Len(x) = n - 1},
                         k \in 1..Len(KeyTexts)}
         \cup KeySeqs(n - 1)

DistinctKeySeqs ==
    {q \in KeySeqs(MaxKeys) : \A i, j \in 1..Len(q) : i # j => q[i] # q[j]}

ReplacementDicts ==
    {[k \in 1..Len(q) |-> ReplacementFor(q[k])] : q \in DistinctKeySeqs}

SensorConditions == {<<>>, <<"a", " ", "=", "=", " ", "1">>}

Sensors ==
    {[unique_id |-> "s1", address |-> 100, description |-> "base",
      firmware_min_version |-> m, condition |-> c, other |-> o] :
        m \in MinVersions, c \in SensorConditions,
        o \in {"none", "module", "name", "connection"}}

(***************************************************************************)
(* Python floats of the write path: m * 2^e with m odd (or m = 0, e = 0),  *)
(* and NoNum for None.  Scale factors are powers of two, so the division   *)
(* is exact.                                                               *)
(***************************************************************************)
NoNum == [none |-> TRUE, m |-> 0, e |-> 0]

RECURSIVE Num(_, _)
Num(m, e) ==
    IF m = 0 THEN [none |-> FALSE, m |-> 0, e |-> 0]
    ELSE IF m % 2 = 0 THEN Num(m \div 2, e + 1)
    ELSE [none |-> FALSE, m |-> m, e |-> e]

RECURSIVE Pow2(_)
Pow2(n) == IF n = 0 THEN 1 ELSE 2 * Pow2(n - 1)

Abs(n) == IF n < 0 THEN 0 - n ELSE n

\* x - y
NumSub(x, y) ==
    LET q == IF x.e < y.e THEN x.e ELSE y.e
    IN  Num(x.m * Pow2(x.e - q) - y.m * Pow2(y.e - q), q)

\* x < y
NumLess(x, y) == NumSub(x, y).m < 0

\* x / y for y = +-2^k
NumDivPow2(x, y) == Num(x.m * y.m, x.e - y.e)

\* int(x): truncation towards zero
NumToInt(x) ==
    IF x.e >= 0 THEN x.m * Pow2(x.e)
    ELSE IF x.m >= 0 THEN x.m \div Pow2(0 - x.e)
    ELSE 0 - ((0 - x.m) \div Pow2(0 - x.e))

RECURSIVE BitLength(_)
BitLength(n) == IF n = 0 THEN 0 ELSE 1 + BitLength(n \div 2)

\* the width lowest bits of n, most significant first
RECURSIVE Bits(_, _)
Bits(n, width) ==
    IF width = 0 THEN <<>>
    ELSE Bits(n \div 2, width - 1) \o <<n % 2>>

RECURSIVE BitsVal(_)
BitsVal(bits) ==
    IF Len(bits) = 0 THEN 0
    ELSE 2 * BitsVal(SubSeq(bits, 1, Len(bits) - 1)) + bits[Len(bits)]

Zeros(n) == [k \in 1..n |-> 0]

\* struct.unpack(">HH..."): the bit string cut into 16-bit words
RECURSIVE Words16(_)
Words16(bits) ==
    IF Len(bits) = 0 THEN <<>>
    ELSE <<BitsVal(SubSeq(bits, 1, 16))>> \o Words16(From(bits, 17))

\* struct.pack(">f") / struct.pack(">d"): sign, biased exponent, fraction.
\* ok = FALSE stands for OverflowError.  Values below the normal range do
\* not occur among the inputs, nor values that need rounding.
PackFloat(x, expBits, fracBits) ==
    LET a == Abs(x.m)
        len == BitLength(a)
        biased == x.e + len - 1 + (Pow2(expBits - 1) - 1)
        sign == IF x.m < 0 THEN 1 ELSE 0
    IN  IF x.m = 0
        THEN [ok |-> TRUE, regs |-> Words16(Zeros(1 + expBits + fracBits))]
        ELSE IF biased >= Pow2(expBits) - 1
        THEN [ok |-> FALSE, regs |-> <<>>]
        ELSE [ok |-> TRUE,
              regs |-> Words16(<<sign>> \o Bits(biased, expBits)
                               \o Bits(a - Pow2(len - 1), len - 1)
                               \o Zeros(fracBits - (len - 1)))]

(***************************************************************************)
(* number.py: ModbusCoordinatorNumber.async_set_native_value, up to the    *)
(* device write call                                                       *)
(***************************************************************************)
\* the battery safety check: value = min(value, max_safe_power) when a safe
\* maximum could be computed (NoNum otherwise)
LimitValue(value, max_safe_power) ==
    IF ~max_safe_power.none /\ NumLess(max_safe_power, value)
    THEN max_safe_power
    ELSE value

\* scale if set, else multiplier if set, else 1.0
ScaleFactor(register_config) ==
    IF ~register_config.scale.none THEN register_config.scale
    ELSE IF ~register_config.multiplier.none THEN register_config.multiplier
    ELSE Num(1, 0)

\* the value and count handed to the device write; ok = FALSE when the
\* conversion raises (ZeroDivisionError, OverflowError).  list tells a
\* register list from a single int, which is held as a one-element sequence.
EncodeWrite(register_config, value) ==
    LET scale_factor == ScaleFactor(register_config)
        scaled_value ==
            NumDivPow2(NumSub(value, register_config.offset), scale_factor)
        f32 == PackFloat(scaled_value, 8, 23)
        f64 == PackFloat(scaled_value, 11, 52)
    IN  IF scale_factor.m = 0
        THEN [ok |-> FALSE, list |-> FALSE, write_value |-> <<>>, count |-> 0]
        ELSE IF register_config.data_type \in {"float", "float32"}
        THEN IF ~f32.ok
             THEN [ok |-> FALSE, list |-> FALSE, write_value |-> <<>>,
                   count |-> 0]
             ELSE [ok |-> TRUE, list |-> TRUE,
                   write_value |-> IF register_config.swap = "word"
                                   THEN <<f32.regs[2], f32.regs[1]>>
                                   ELSE f32.regs,
                   count |-> 2]
        ELSE IF register_config.data_type = "float64"
        THEN [ok |-> TRUE, list |-> TRUE, write_value |-> f64.regs,
              count |-> 4]
        ELSE [ok |-> TRUE, list |-> FALSE,
              write_value |-> <<NumToInt(scaled_value)>>,
              count |-> IF register_config.count = 0 THEN 1
                        ELSE register_config.count]

(***************************************************************************)
(* number.py: ModbusCoordinatorNumber._handle_coordinator_update and       *)
(* _get_value_from_referenced_register.                                    *)
(*                                                                         *)
(* coordinator.register_data is a sequence of [key, data] in dict order;   *)
(* data is [empty, processed_value] and a processed value is None, a       *)
(* number or a string.                                                     *)
(***************************************************************************)
PvNone == [t |-> "none", n |-> NoNum, s |-> <<>>]

PvNum(x) == [t |-> "num", n |-> x, s |-> <<>>]

PvStr(x) == [t |-> "str", n |-> NoNum, s |-> x]

\* float(processed_value); NoNum for ValueError / TypeError.  float() of a
\* string is modelled for integer texts.
ToFloat(pv) ==
    CASE pv.t = "num" -> pv.n
      [] pv.t = "str" -> IF ParseInt(pv.s).ok THEN Num(ParseInt(pv.s).v, 0)
                         ELSE NoNum
      [] OTHER -> NoNum

NoData == [absent |-> TRUE, empty |-> TRUE, processed_value |-> PvNone]

Data(empty, pv) == [absent |-> FALSE, empty |-> empty, processed_value |-> pv]

\* coordinator.get_register_data(key): the entry of that key, None if absent
get_register_data(register_data, key) ==
    IF \E k \in 1..Len(register_data) : register_data[k].key = key
    THEN register_data[CHOOSE k \in 1..Len(register_data) :
                           register_data[k].key = key].data
    ELSE NoData

\* a reference to another register: None, a unique_id string, or a dict
\* with register_unique_id and fallback
NoRef == [kind |-> "none", register_unique_id |-> <<>>, fallback |-> NoNum]

\* _get_value_from_referenced_register
_get_value_from_referenced_register(ref, register_data) ==
    LET fallback == IF ref.kind = "dict" THEN ref.fallback ELSE NoNum
        matches == {k \in 1..Len(register_data) :
                      Contains(Lower(register_data[k].key),
                               Lower(ref.register_unique_id))}
        data == register_data[SetMin(matches)].data
        value == ToFloat(data.processed_value)
    IN  IF ref.kind = "none" \/ ref.register_unique_id = <<>> THEN NoNum
        ELSE IF Len(register_data) = 0 THEN fallback
        ELSE IF matches # {} /\ ~value.none THEN value
        ELSE fallback

\* the value part of the handler: _attr_native_value from the own register
UpdatedValue(register_data, register_key) ==
    LET data == get_register_data(register_data, register_key)
    IN  IF ~data.absent /\ ~data.empty /\ data.processed_value.t # "none"
        THEN ToFloat(data.processed_value)
        ELSE NoNum

\* extra_state_attributes["processed_value"] after the handler
UpdatedAttribute(register_data, register_key, previous) ==
    LET data == get_register_data(register_data, register_key)
    IN  IF ~data.absent /\ ~data.empty /\ data.processed_value.t # "none"
        THEN data.processed_value
        ELSE previous

\* _attr_native_max_value after the handler
UpdatedMax(ref, register_data, current, fallback) ==
    LET dynamic_max == _get_value_from_referenced_register(ref, register_data)
    IN  IF ref.kind = "none" THEN current
        ELSE IF ~dynamic_max.none /\ NumLess(Num(0, 0), dynamic_max)
        THEN dynamic_max
        ELSE fallback

\* _attr_native_min_value after the handler
UpdatedMin(ref, register_data, current, fallback) ==
    LET dynamic_min == _get_value_from_referenced_register(ref, register_data)
    IN  IF ref.kind = "none" THEN current
        ELSE IF ~dynamic_min.none THEN dynamic_min
        ELSE fallback

(***************************************************************************)
(* number.py: ModbusCoordinatorNumber.available                            *)
(*                                                                         *)
(* coordinator.data is a sequence of [key, data] in dict order; data holds *)
(* processed_value and numeric_value (None, a number or a string).         *)
(***************************************************************************)
HexChars ==
    <<"0", "1", "2", "3", "4", "5", "6", "7", "8", "9", "a", "b", "c", "d",
      "e", "f">>

IsHexDigit(c) == \E k \in 1..16 : HexChars[k] = LowerChar(c)

HexDigitVal(c) == (CHOOSE k \in 1..16 : HexChars[k] = LowerChar(c)) - 1

RECURSIVE HexDigitsVal(_)
HexDigitsVal(s) ==
    IF Len(s) = 0 THEN 0
    ELSE 16 * HexDigitsVal(SubSeq(s, 1, Len(s) - 1)) + HexDigitVal(s[Len(s)])

\* int(text, 16) of a text that starts with "0x"; ok = FALSE for ValueError
ParseHex(s) ==
    LET body == From(s, 3)
    IN  IF Len(body) > 0 /\ \A k \in 1..Len(body) : IsHexDigit(body[k])
        THEN [ok |-> TRUE, v |-> HexDigitsVal(body)]
        ELSE [ok |-> FALSE, v |-> 0]

\* int(value) of a number or a text; ok = FALSE when int() raises
PlainInt(pv) ==
    CASE pv.t = "num" -> [ok |-> TRUE, v |-> NumToInt(pv.n)]
      [] pv.t = "str" -> ParseInt(pv.s)
      [] OTHER -> [ok |-> FALSE, v |-> 0]

\* "Convert hex strings to int": a text that starts with "0x" becomes
\* int(text, 16), any other value is kept; ok = FALSE when int() raises
HexConverted(pv) ==
    IF pv.t = "str" /\ StartsWith(pv.s, <<"0", "x">>)
    THEN [ok |-> ParseHex(pv.s).ok, value |-> PvNum(Num(ParseHex(pv.s).v, 0))]
    ELSE [ok |-> TRUE, value |-> pv]

NoDependency ==
    [configured |-> FALSE, register_unique_id |-> <<>>,
     required_value |-> PvNone, has_address |-> FALSE, register_address |-> 0]

Dependency(id, required, has_address, address) ==
    [configured |-> TRUE, register_unique_id |-> id,
     required_value |-> required, has_address |-> has_address,
     register_address |-> address]

DepEntry(empty, pv, nv) ==
    [empty |-> empty, processed_value |-> pv, numeric_value |-> nv]

\* the dependency lookup: the entry of the exact key when an address is
\* given and that entry is not empty, else the first entry whose key
\* contains the unique_id
FindDependency(dependency, data) ==
    LET expected_key == dependency.register_unique_id \o <<"_">>
                        \o IntToStr(dependency.register_address)
        exact == {k \in 1..Len(data) : data[k].key = expected_key}
        search == {k \in 1..Len(data) :
                     Contains(data[k].key, dependency.register_unique_id)}
    IN  IF /\ dependency.has_address
           /\ exact # {}
           /\ ~data[SetMin(exact)].data.empty
        THEN [found |-> TRUE, at |-> SetMin(exact)]
        ELSE IF search # {} THEN [found |-> TRUE, at |-> SetMin(search)]
        ELSE [found |-> FALSE, at |-> 0]

\* variant of DependencySatisfied that lets an entry without a processed
\* value pass
DependencySatisfied_NoValuePasses(dependency, register_data) ==
    LET req_val == HexConverted(dependency.required_value)
        proc_val == IF register_data.numeric_value.t # "none"
                    THEN register_data.numeric_value
                    ELSE HexConverted(register_data.processed_value).value
    IN  IF register_data.processed_value.t = "none" THEN TRUE
        ELSE IF \/ ~req_val.ok
                \/ ~HexConverted(register_data.processed_value).ok
                \/ ~PlainInt(proc_val).ok
                \/ ~PlainInt(req_val.value).ok
        THEN TRUE
        ELSE PlainInt(proc_val).v = PlainInt(req_val.value).v

\* the comparison of a found, non-empty dependency entry with the required
\* value; an exception in a conversion gives True (fail open)
DependencySatisfied(dependency, register_data) ==
    LET req_val == HexConverted(dependency.required_value)
        proc_val == IF register_data.numeric_value.t # "none"
                    THEN register_data.numeric_value
                    ELSE HexConverted(register_data.processed_value).value
    IN  IF register_data.processed_value.t = "none" THEN FALSE
        ELSE IF \/ ~req_val.ok
                \/ ~HexConverted(register_data.processed_value).ok
                \/ ~PlainInt(proc_val).ok
                \/ ~PlainInt(req_val.value).ok
        THEN TRUE
        ELSE PlainInt(proc_val).v = PlainInt(req_val.value).v

\* ModbusCoordinatorNumber.available
available(coordinator_ok, dependency, data) ==
    LET dep == FindDependency(dependency, data)
    IN  IF ~coordinator_ok THEN FALSE
        ELSE IF ~dependency.configured THEN TRUE
        ELSE IF \/ dependency.register_unique_id = <<>>
                \/ dependency.required_value.t = "none"
        THEN TRUE
        ELSE IF Len(data) = 0 THEN TRUE
        ELSE IF dep.found /\ ~data[dep.at].data.empty
        THEN DependencySatisfied(dependency, data[dep.at].data)
        ELSE TRUE

(***************************************************************************)
(* template_loader.py: validate_and_process_register,                      *)
(* validate_register_data, validate_control_settings and the standard      *)
(* path of load_single_template.                                           *)
(*                                                                         *)
(* A register of a template file is a record of the fields the validation  *)
(* reads; address, count, scan_interval, min_value and max_value are       *)
(* Python values, scale is None, a number or a string.                     *)
(***************************************************************************)
IsPyInt(v) == v.t \in {"int", "bool"}

PyIntValue(v) == IF v.t = "bool" THEN (IF v.b THEN 1 ELSE 0) ELSE v.i

ValidDataTypes ==
    {"uint16", "int16", "uint32", "int32", "string", "float", "float32",
     "float64", "boolean"}

FloatDataTypes == {"float", "float32", "float64"}

\* min_count of the float validation
MinCount(data_type) == IF data_type \in {"float", "float32"} THEN 2 ELSE 4

\* validate_control_settings
validate_control_settings(reg) ==
    IF reg.control = "number"
    THEN ~(/\ reg.min_value.t # "none"
           /\ reg.max_value.t # "none"
           /\ PyIntValue(reg.min_value) >= PyIntValue(reg.max_value))
    ELSE IF reg.control = "switch"
    THEN ~(reg.switch.configured /\ reg.switch.on = reg.switch.off)
    ELSE TRUE

\* variant of FloatCountValid that accepts every count
FloatCountValid_Unchecked(data_type, count) == TRUE

\* the float-specific validation: an explicit count of a float type is at
\* least min_count
FloatCountValid(data_type, count) ==
    (data_type \in FloatDataTypes /\ count.t # "none") =>
        PyIntValue(count) >= MinCount(data_type)

\* validate_register_data
validate_register_data(reg) ==
    /\ IsPyInt(reg.address) /\ PyIntValue(reg.address) >= 0
    /\ reg.data_type \in ValidDataTypes
    /\ reg.count.t = "none" \/ (IsPyInt(reg.count) /\ PyIntValue(reg.count) >= 1)
    /\ FloatCountValid(reg.data_type, reg.count)
    /\ reg.scale.t = "num" /\ NumLess(Num(0, 0), reg.scale.n)
    /\ IsPyInt(reg.scan_interval) /\ PyIntValue(reg.scan_interval) >= 0
    /\ validate_control_settings(reg)
    /\ reg.control = "select" => reg.has_options

\* determine_entity_type
determine_entity_type(reg) ==
    IF reg.control \in {"number", "select", "switch", "button", "text"}
    THEN reg.control
    ELSE IF reg.data_type = "boolean" THEN "binary_sensor"
    ELSE "sensor"

\* validate_and_process_register: ok = FALSE for None
validate_and_process_register(reg) ==
    LET processed_reg ==
            [reg EXCEPT !.entity_type = determine_entity_type(reg)]
    IN  IF ~reg.has_required THEN [ok |-> FALSE, reg |-> reg]
        ELSE IF ~validate_register_data(processed_reg)
        THEN [ok |-> FALSE, reg |-> reg]
        ELSE [ok |-> TRUE, reg |-> processed_reg]

\* variant of ValidatedRegisters that stops at the first register that is
\* not validated
RECURSIVE ValidatedRegisters_StopAtInvalid(_, _)
ValidatedRegisters_StopAtInvalid(raw_registers, template_name) ==
    IF Len(raw_registers) = 0 THEN <<>>
    ELSE IF ~validate_and_process_register(Head(raw_registers)).ok THEN <<>>
    ELSE <<[validate_and_process_register(Head(raw_registers)).reg
               EXCEPT !.template = template_name]>>
         \o ValidatedRegisters_StopAtInvalid(Tail(raw_registers),
                                             template_name)

\* the validation loop of load_single_template: the validated registers in
\* file order, each with the template name
RECURSIVE ValidatedRegisters(_, _)
ValidatedRegisters(raw_registers, template_name) ==
    IF Len(raw_registers) = 0 THEN <<>>
    ELSE (IF validate_and_process_register(Head(raw_registers)).ok
          THEN <<[validate_and_process_register(Head(raw_registers)).reg
                     EXCEPT !.template = template_name]>>
          ELSE <<>>)
         \o ValidatedRegisters(Tail(raw_registers), template_name)

\* a field of dynamic_config: absent, an option dict with a default, or a
\* plain value
FieldAbsent == [kind |-> "absent", v |-> 0]

FieldOptions(default) == [kind |-> "options", v |-> default]

FieldValue(v) == [kind |-> "value", v |-> v]

\* a template without the dynamic_config key
NoDynamicConfig ==
    [present |-> FALSE, phases |-> FieldAbsent, modules |-> FieldAbsent]

\* None as the result of a load
NoTemplate ==
    [loaded |-> FALSE, name |-> "", sensors |-> <<>>,
     calculated |-> <<>>, binary_sensors |-> <<>>, controls |-> <<>>,
     type |-> "", description |-> "", dynamic_config |-> NoDynamicConfig,
     is_custom |-> FALSE]

\* load_single_template for a file that is not cached: the standard path
\* (a template that extends no base template)
load_single_template(data) ==
    LET is_base == data.type = "base_template"
        validated_registers == ValidatedRegisters(data.sensors, data.name)
    IN  IF data.name = "" THEN NoTemplate
        ELSE IF Len(data.sensors) = 0 /\ ~is_base THEN NoTemplate
        ELSE IF Len(validated_registers) = 0 /\ ~is_base THEN NoTemplate
        ELSE [loaded |-> TRUE, name |-> data.name,
              sensors |-> validated_registers,
              calculated |-> data.calculated,
              binary_sensors |-> data.binary_sensors,
              controls |-> data.controls, type |-> data.type,
              description |-> data.description,
              dynamic_config |-> data.dynamic_config, is_custom |-> FALSE]

(***************************************************************************)
(* config_flow.py: what _process_dynamic_config and                        *)
(* _filter_battery_registers_from_inverter write into the template they    *)
(* are given                                                               *)
(***************************************************************************)
NoInput == [given |-> FALSE, v |-> 0]

Input(v) == [given |-> TRUE, v |-> v]

\* _safe_default(dynamic_config, key, default)
SafeDefault(field, default) == IF field.kind = "options" THEN field.v ELSE default

\* dynamic_config of the template after _process_dynamic_config ran with a
\* user_input that selects no model: "modules" is set, every field of the
\* user input is stored, and every remaining option dict is replaced by
\* its default.  A template without dynamic_config is not touched.
ProcessedDynamicConfig(dynamic_config, user_input) ==
    LET modules == IF user_input.modules.given THEN user_input.modules.v
                   ELSE SafeDefault(dynamic_config.modules, 3)
    IN  IF ~dynamic_config.present THEN dynamic_config
        ELSE [present |-> TRUE,
              modules |-> FieldValue(modules),
              phases |->
                  IF user_input.phases.given
                  THEN FieldValue(user_input.phases.v)
                  ELSE IF dynamic_config.phases.kind = "options"
                  THEN FieldValue(dynamic_config.phases.v)
                  ELSE dynamic_config.phases]

battery_groups ==
    {"PV_battery_temperature", "PV_battery_control", "calculated_battery",
     "battery"}

\* _is_battery_group_sensor
_is_battery_group_sensor(sensor) == sensor.group \in battery_groups

RECURSIVE WithoutBatteryGroups(_)
WithoutBatteryGroups(entities) ==
    IF Len(entities) = 0 THEN <<>>
    ELSE (IF _is_battery_group_sensor(Head(entities)) THEN <<>>
          ELSE <<Head(entities)>>)
         \o WithoutBatteryGroups(Tail(entities))

\* the template after _filter_battery_registers_from_inverter
FilteredInverterTemplate(template) ==
    [template EXCEPT
        !.sensors = WithoutBatteryGroups(template.sensors),
        !.calculated = WithoutBatteryGroups(template.calculated),
        !.binary_sensors = WithoutBatteryGroups(template.binary_sensors)]

(***************************************************************************)
(* template_loader.py: load_templates and get_template_by_name, over one   *)
(* built-in and one custom template file                                   *)
(***************************************************************************)
\* load_templates_from_dir marks what it loads as custom
MarkedCustom(template) ==
    IF template.loaded THEN [template EXCEPT !.is_custom = TRUE] ELSE template

\* variant of TemplatesDict in which a built-in template is not replaced
TemplatesDict_BuiltinStays(builtin, custom) ==
    IF builtin.loaded THEN
        IF custom.loaded /\ custom.name # builtin.name
        THEN <<builtin, custom>> ELSE <<builtin>>
    ELSE IF custom.loaded THEN <<custom>> ELSE <<>>

\* list(templates_dict.values()) of load_templates: built-in templates
\* first, then each custom template under its name
TemplatesDict(builtin, custom) ==
    LET built_in == IF builtin.loaded THEN <<builtin>> ELSE <<>>
    IN  IF ~custom.loaded THEN built_in
        ELSE IF builtin.loaded /\ builtin.name = custom.name THEN <<custom>>
        ELSE built_in \o <<custom>>

\* which source get_template_by_name returns the template from: the custom
\* directory, the cached path of the name, the built-in directory, or none
TemplateSource(template_name, custom, cached, builtin) ==
    IF custom.loaded /\ custom.name = template_name THEN "custom"
    ELSE IF cached.loaded THEN "cached"
    ELSE IF builtin.loaded /\ builtin.name = template_name THEN "builtin"
    ELSE "none"

(***************************************************************************)
(* Range Optimizer: optimize(registers, max_span_words, max_gap_words)     *)
(* A span is kept with the registers the sweep placed in it.               *)
(***************************************************************************)
OptRegister(register_space, address, word_count) ==
    [register_space |-> register_space, address |-> address,
     word_count |-> word_count]

RegisterSpaces == <<"holding", "input">>

\* the registers of one (slave_id, register_space) group, in input order
GroupOf(registers, register_space) ==
    SelectSeq(registers, LAMBDA r : r.register_space = register_space)

\* a register put into an address-sorted list behind every register whose
\* address is not larger
InsertByAddress(sorted, register) ==
    LET before == SelectSeq(sorted, LAMBDA r : r.address <= register.address)
        after == SelectSeq(sorted, LAMBDA r : r.address > register.address)
    IN  before \o <<register>> \o after

RECURSIVE SortByAddress(_)
SortByAddress(registers) ==
    IF registers = <<>> THEN <<>>
    ELSE InsertByAddress(
             SortByAddress(SubSeq(registers, 1, Len(registers) - 1)),
             registers[Len(registers)])

\* variant of Extends that only looks at the gap
Extends_AnyLength(register, start, end, max_span_words, max_gap_words) ==
    register.address - end <= max_gap_words

\* variant of Extends that only looks at the span length
Extends_AnyGap(register, start, end, max_span_words, max_gap_words) ==
    (register.address + register.word_count) - start <= max_span_words

\* whether the next register extends the current span [start, end)
Extends(register, start, end, max_span_words, max_gap_words) ==
    /\ register.address - end <= max_gap_words
    /\ (register.address + register.word_count) - start <= max_span_words

\* variant of SpanEnd that ends the span at the last register added
SpanEnd_LastRegister(end, register) ==
    register.address + register.word_count

\* the end of a span extended to include the register
SpanEnd(end, register) ==
    IF register.address + register.word_count > end
    THEN register.address + register.word_count
    ELSE end

\* the span a register begins
NewSpan(register) ==
    [register_space |-> register.register_space,
     start_address |-> register.address,
     word_count |-> register.word_count,
     registers |-> <<register>>]

ExtendedSpan(span, register) ==
    [span EXCEPT
        !.word_count =
            SpanEnd(span.start_address + span.word_count, register)
                - span.start_address,
        !.registers = Append(@, register)]

\* the sweep over the address-sorted registers of one group
RECURSIVE Sweep(_, _, _, _)
Sweep(sorted, spans, max_span_words, max_gap_words) ==
    IF sorted = <<>> THEN spans
    ELSE LET register == Head(sorted)
             current == spans[Len(spans)]
         IN  IF /\ spans # <<>>
                /\ Extends(register, current.start_address,
                           current.start_address + current.word_count,
                           max_span_words, max_gap_words)
             THEN Sweep(Tail(sorted),
                        [spans EXCEPT ![Len(spans)] =
                            ExtendedSpan(current, register)],
                        max_span_words, max_gap_words)
             ELSE Sweep(Tail(sorted), Append(spans, NewSpan(register)),
                        max_span_words, max_gap_words)

optimize(registers, max_span_words, max_gap_words) ==
    Sweep(SortByAddress(GroupOf(registers, RegisterSpaces[1])), <<>>,
          max_span_words, max_gap_words)
    \o Sweep(SortByAddress(GroupOf(registers, RegisterSpaces[2])), <<>>,
             max_span_words, max_gap_words)

(***************************************************************************)
(* __init__.py: async_unload_entry                                         *)
(***************************************************************************)
\* new_refcount = max(0, current_refcount - 1)
DecrementedRefcount(current_refcount) ==
    IF current_refcount - 1 > 0 THEN current_refcount - 1 ELSE 0

\* variant of ClosesHub that does not look at _reload_in_progress
ClosesHub_IgnoreReload(new_refcount, is_reload) ==
    new_refcount = 0

\* whether the unload closes the hub
ClosesHub(new_refcount, is_reload) ==
    new_refcount = 0 /\ ~is_reload

\* whether the unload deletes the entry's runtime data
DeletesData(is_reload) == ~is_reload

NoUnload ==
    [entry |-> "", is_reload |-> FALSE, new_refcount |-> 0,
     closes |-> FALSE, deletes |-> FALSE]

(***************************************************************************)
(* config_flow.py: async_migrate_entry.  The data of a config entry is a   *)
(* function from the keys it holds; the register lists copied into the     *)
(* inverter device are left out.                                           *)
(***************************************************************************)
\* data.get(key, default)
Get(data, key, default) ==
    IF key \in DOMAIN data THEN data[key] ELSE default

\* bool(data.get(key)) of a text value
TruthyText(data, key) == key \in DOMAIN data /\ data[key] # ""

Without(data, key) == [k \in DOMAIN data \ {key} |-> data[k]]

\* the already-migrated test of async_migrate_entry
AlreadyMigrated(entry) ==
    /\ entry.version >= 2
    /\ "devices" \in DOMAIN entry.data
    /\ Len(entry.data["devices"]) > 0

MainDevice(data) ==
    [prefix |-> Get(data, "prefix", "unknown"),
     template |-> data["template"],
     slave_id |-> Get(data, "slave_id", 1),
     type |-> "inverter"]

BatteryDevice(data) ==
    [prefix |-> Get(data, "battery_prefix", "SBR"),
     template |-> data["battery_template"],
     slave_id |-> Get(data, "battery_slave_id", 200),
     type |-> "battery"]

MigratedDevices(data) ==
    (IF TruthyText(data, "template") THEN <<MainDevice(data)>> ELSE <<>>)
    \o (IF TruthyText(data, "battery_template")
        THEN <<BatteryDevice(data)>> ELSE <<>>)

HubConfig(data) ==
    [host |-> Get(data, "host", "unknown"), port |-> Get(data, "port", 502),
     timeout |-> Get(data, "timeout", 3), delay |-> Get(data, "delay", 0)]

MigratedData(data) ==
    LET with_devices == ("devices" :> MigratedDevices(data))
                        @@ Without(data, "devices")
        with_hub == IF "hub" \in DOMAIN data THEN with_devices
                    ELSE ("hub" :> HubConfig(data)) @@ with_devices
    IN  IF "type" \in DOMAIN data /\ "modbus_type" \notin DOMAIN data
        THEN ("modbus_type" :> data["type"]) @@ Without(with_hub, "type")
        ELSE with_hub

\* the config entry after async_migrate_entry
async_migrate_entry(entry) ==
    IF AlreadyMigrated(entry) THEN entry
    ELSE [version |-> 2, data |-> MigratedData(entry.data)]

\* the fallback check of async_setup_entry
NeedsFallbackMigration(entry) ==
    \/ entry.version < 2
    \/ "devices" \notin DOMAIN entry.data
    \/ Len(entry.data["devices"]) = 0

(***************************************************************************)
(* Config flow and options flow (config_flow.py): the config entries of    *)
(* the integration, the devices list of each entry                         *)
(***************************************************************************)
\* the text of the battery_config condition of the hybrid inverter template
ConnectionCondition ==
    <<"c", "o", "n", "n", "e", "c", "t", "i", "o", "n", "_", "t", "y", "p",
      "e", " ", "!", "=", " ", "W", "I", "N", "E", "T">>

ConnectionTypeKey ==
    <<"c", "o", "n", "n", "e", "c", "t", "i", "o", "n", "_", "t", "y", "p",
      "e">>

\* the characters of a connection type
Characters(text) ==
    IF text = "WINET" THEN <<"W", "I", "N", "E", "T">> ELSE <<"L", "A", "N">>

\* the templates get_template_by_name finds: a hybrid inverter whose
\* dynamic_config has a battery_config section with a condition, an inverter
\* without dynamic_config, and a battery template
FlowTemplate(name) ==
    CASE name = "sg_hybrid" ->
            [name |-> name, type |-> "pv_hybrid_inverter",
             dynamic_config |-> TRUE, battery_config |-> TRUE,
             condition |-> ConnectionCondition, sbr_in_name |-> FALSE]
      [] name = "sbr_battery" ->
            [name |-> name, type |-> "battery",
             dynamic_config |-> TRUE, battery_config |-> FALSE,
             condition |-> <<>>, sbr_in_name |-> TRUE]
      [] OTHER ->
            [name |-> name, type |-> "pv_inverter",
             dynamic_config |-> FALSE, battery_config |-> FALSE,
             condition |-> <<>>, sbr_in_name |-> FALSE]

\* the names get_template_by_name finds a template for
KnownTemplates == {"sg_hybrid", "sbr_battery", "sg_string"}

\* the entities of a template filtered for a firmware version, by the
\* template and the version
RegistersFor(template_name, firmware_version) ==
    <<template_name, firmware_version>>

\* _evaluate_condition of the condition of the hybrid inverter template, by
\* the connection_type of the data ("" when the data has none)
ConnectionConditionResult ==
    [connection_type \in {"", "LAN", "WINET"} |->
        _evaluate_condition(
            ConnectionCondition,
            IF connection_type = "" THEN <<"a">> :> PyNone
            ELSE ConnectionTypeKey :> PyStr(Characters(connection_type)))]

(***************************************************************************)
(* load_single_template with base templates (template_loader.py): a        *)
(* template that extends a base template, and load_mapping_template        *)
(***************************************************************************)
\* what load_single_template returns when it returns None
NotLoaded ==
    [loaded |-> FALSE, is_simple_template |-> FALSE, has_extends |-> FALSE,
     sensors |-> <<>>, calculated |-> <<>>, controls |-> <<>>]

\* `extends_name and base_templates and extends_name in base_templates`
ExtendsBase(data, base_templates) ==
    /\ data.extends # ""
    /\ data.extends \in DOMAIN base_templates

\* a simplified template has required_fields and auto_generated_sensors
IsSimpleTemplate(data) ==
    data.required_fields /\ data.auto_generated_sensors

\* the local raw_registers when the validation loop starts: the branch of an
\* extending template assigns it only after the return of the simplified
\* template, in code that is never reached
RawRegisters(data, base_templates) ==
    IF ExtendsBase(data, base_templates)
    THEN [bound |-> FALSE, registers |-> <<>>]
    ELSE [bound |-> TRUE, registers |-> data.sensors]

\* the entries of base whose key is no key of an entry of custom, then custom
CombinedBy(key, base, custom) ==
    LET custom_keys == {custom[i][key] :
                           i \in {j \in 1..Len(custom) :
                                     key \in DOMAIN custom[j]}}
        Kept(entry) == key \notin DOMAIN entry \/ entry[key] \notin custom_keys
    IN  SelectSeq(base, Kept) \o custom

\* calculated_entities of an extending template
CombinedCalculated(data, base_template) ==
    CombinedBy("unique_id", base_template.calculated, data.calculated)

\* controls of an extending template
CombinedControls(data, base_template) ==
    CombinedBy("name", base_template.controls, data.custom_controls)

\* load_single_template(template_path, base_templates) for a file that is
\* not cached; a use of the unbound raw_registers raises UnboundLocalError,
\* which the handler of the function turns into None
load_single_template_with_base(data, base_templates) ==
    LET extends == ExtendsBase(data, base_templates)
        raw_registers == RawRegisters(data, base_templates)
        is_base == data.type = "base_template"
        validated_registers ==
            ValidatedRegisters(raw_registers.registers, data.name)
    IN  IF data.name = "" THEN NotLoaded
        ELSE IF extends /\ IsSimpleTemplate(data)
        THEN [NotLoaded EXCEPT !.loaded = TRUE, !.is_simple_template = TRUE]
        ELSE IF ~ raw_registers.bound THEN NotLoaded
        ELSE IF Len(raw_registers.registers) = 0 /\ ~ is_base THEN NotLoaded
        ELSE IF Len(validated_registers) = 0 /\ ~ is_base THEN NotLoaded
        ELSE [loaded |-> TRUE, is_simple_template |-> FALSE,
              has_extends |-> data.extends # "",
              sensors |-> validated_registers,
              calculated |->
                  IF extends
                  THEN CombinedCalculated(data, base_templates[data.extends])
                  ELSE data.calculated,
              controls |->
                  IF extends
                  THEN CombinedControls(data, base_templates[data.extends])
                  ELSE data.controls]

\* load_mapping_template: the loaded template if it has the key extends
load_mapping_template(data, base_templates) ==
    LET mapping_data == load_single_template_with_base(data, base_templates)
    IN  IF mapping_data.loaded /\ mapping_data.has_extends
        THEN mapping_data ELSE NotLoaded

(***************************************************************************)
(* State                                                                   *)
(***************************************************************************)
VARIABLES
    cond_tree,       \* the expression, as a tree
    condition,       \* the condition string handed to _evaluate_condition
    dynamic_config,  \* the configuration values
    cond_result      \* "pending" before the call, then its outcome

cond_vars == <<cond_tree, condition, dynamic_config, cond_result>>

VARIABLES
    fw_sensor,            \* the sensor definition of the template
    firmware_version,     \* the firmware version of the device
    sensor_replacements,  \* dynamic_config["sensor_replacements"]
    cf_result,            \* outcome of the config flow's _should_include_sensor
    processed_sensors,    \* processed_sensors of _process_dynamic_config
    tl_result             \* outcome of template_loader._should_include_sensor

fw_vars == <<fw_sensor, firmware_version, sensor_replacements, cf_result,
             processed_sensors, tl_result>>

VARIABLES
    register_config,   \* the register_config of the number entity
    set_pc,            \* position of async_set_native_value
    hub_call,          \* the arguments of hub.async_pb_call
    write_result,      \* "none", or how the write call ended
    events,            \* device write and refresh events, in order
    errors_logged,     \* number of _LOGGER.error calls
    returned           \* what async_set_native_value gave its caller

write_vars == <<register_config, set_pc, hub_call, write_result, events,
                errors_logged, returned>>

VARIABLES
    entity_config,     \* max_value_from_register / min_value_from_register
    register_data,     \* coordinator.register_data, the current snapshot
    native_value,      \* _attr_native_value
    native_max_value,  \* _attr_native_max_value
    native_min_value,  \* _attr_native_min_value
    attr_processed,    \* extra_state_attributes["processed_value"]
    ha_state,          \* the value last written by async_write_ha_state
    updates,           \* number of coordinator updates handled
    last_failure       \* where the last handler run raised, "none" if not

update_vars == <<entity_config, register_data, native_value, native_max_value,
                 native_min_value, attr_processed, ha_state, updates,
                 last_failure>>

VARIABLES
    avail_dependency,  \* _register_dependency of the number entity
    coord_ok,          \* coordinator connected and last update successful
    coord_data,        \* coordinator.data
    avail_result       \* "unread", or what the last read of available gave

avail_vars == <<avail_dependency, coord_ok, coord_data, avail_result>>

VARIABLES
    template_data,     \* the parsed content of a template file
    load_done,         \* whether load_single_template has returned
    load_result        \* what load_single_template returned

load_vars ==
    <<template_data, load_done, load_result>>

VARIABLES
    builtin_file,      \* the template file of the built-in directory
    custom_file,       \* the template file of the custom directory, if any
    template_cache,    \* _template_cache, by path
    name_to_path,      \* _template_name_to_path
    flow_template,     \* the path whose cached template the flow holds
    listed_done,       \* whether load_templates has returned
    listed,            \* what load_templates returned
    got_name,          \* the name last asked of get_template_by_name
    got                \* what get_template_by_name returned

cache_vars ==
    <<builtin_file, custom_file, template_cache, name_to_path,
    flow_template, listed_done, listed, got_name, got>>

VARIABLES
    opt_registers,        \* the requested registers, in any order
    opt_max_span_words,   \* max_span_words
    opt_max_gap_words,    \* max_gap_words
    opt_done,             \* whether optimize has returned
    opt_spans             \* the spans optimize returned

opt_vars ==
    <<opt_registers, opt_max_span_words, opt_max_gap_words, opt_done,
    opt_spans>>

VARIABLES
    hub_channel,         \* who holds the hub's transaction channel
    in_flight,           \* the device transactions in flight on the hub
    cycles,              \* the poll sequences that have started and not ended
    refresh_requested,   \* a timer tick or refresh request is due
    ticks,               \* timer ticks so far
    writers,             \* where each writing entity is in its write
    writes               \* writes requested so far

hub_vars ==
    <<hub_channel, in_flight, cycles, refresh_requested, ticks, writers,
    writes>>

VARIABLES
    reload_entries,     \* the config entries of the integration
    reload_loadable,    \* whether the template of an entry can be loaded
    reload_unloads,     \* how often each entry was unloaded
    reload_setups,      \* how often each entry was set up
    reload_calls,       \* calls of the reload_templates service so far
    updated_entries     \* updated_entries of the last call

reload_vars ==
    <<reload_entries, reload_loadable, reload_unloads, reload_setups,
    reload_calls, updated_entries>>

VARIABLES
    entry_host,            \* the host:port of each config entry
    runtime_data,          \* whether hass.data holds the entry's runtime data
    hub_state,             \* the hub created by the entry's last setup
    hub_refcount,          \* _hub_refcount_<hub_name>, 0 when absent
    reload_in_progress,    \* _reload_in_progress
    svc_phase,             \* where each reload_templates call is
    svc_updated,           \* updated_entries of each call
    flag_setters,          \* the calls that set _reload_in_progress
    flag_at_finish,        \* _reload_in_progress when a call finished
    last_unload            \* what the last async_unload_entry did

unload_vars ==
    <<entry_host, runtime_data, hub_state, hub_refcount,
    reload_in_progress, svc_phase, svc_updated, flag_setters,
    flag_at_finish, last_unload>>

VARIABLES
    mig_legacy,        \* the config entry before its first migration
    mig_entry,         \* the config entry: version and data
    mig_before,        \* the config entry before the last call
    mig_calls,         \* calls that reached async_migrate_entry so far
    mig_recognised,    \* whether the last call found the entry migrated
    mig_last           \* the last call: "migrate" or "setup"

mig_vars ==
    <<mig_legacy, mig_entry, mig_before, mig_calls, mig_recognised,
      mig_last>>

VARIABLES
    config_entries,    \* the data of the config entries, in creation order
    flow_kind,         \* the flow that finished last: config or options
    flow_input,        \* the form input of the last flow
    flow_entry,        \* the entry the last flow created or changed
    flow_before,       \* the config entries before the last flow
    flow_result,       \* how the last flow ended
    flow_log,          \* what the last flow did with its entry, in order
    flow_count,        \* flows finished so far
    condition_results  \* _evaluate_condition of the battery_config condition

flow_vars ==
    <<config_entries, flow_kind, flow_input, flow_entry, flow_before,
    flow_result, flow_log, flow_count,
    condition_results>>

VARIABLES
    ext_data,          \* the content of the file of the template
    ext_base_templates,   \* the base templates, by name
    ext_loader,        \* the function that loaded the file last
    ext_result         \* what that function returned

ext_vars ==
    <<ext_data, ext_base_templates, ext_loader, ext_result>>

VARIABLES
    incl_condition,    \* the condition of the sensor the loader filters
    incl_config,       \* the dynamic configuration it is filtered for
    incl_result        \* what _should_include_sensor returned

incl_vars ==
    <<incl_condition, incl_config, incl_result>>

vars ==
    <<cond_vars, fw_vars, write_vars, update_vars, avail_vars, load_vars,
    cache_vars, opt_vars, hub_vars, reload_vars, unload_vars, mig_vars,
    flow_vars, ext_vars, incl_vars>>

\* the variables of the other components
cond_others ==
    <<fw_vars, write_vars, update_vars, avail_vars, load_vars, cache_vars,
    opt_vars, hub_vars, reload_vars, unload_vars, mig_vars, flow_vars,
    ext_vars, incl_vars>>

fw_others ==
    <<cond_tree, condition, cond_result, write_vars, update_vars,
    avail_vars, load_vars, cache_vars, opt_vars, hub_vars, reload_vars,
    unload_vars, mig_vars, flow_vars, ext_vars, incl_vars>>

write_others ==
    <<cond_vars, fw_vars, update_vars, avail_vars, load_vars, cache_vars,
    opt_vars, hub_vars, reload_vars, unload_vars, mig_vars, flow_vars,
    ext_vars, incl_vars>>

update_others ==
    <<cond_vars, fw_vars, write_vars, avail_vars, load_vars, cache_vars,
    opt_vars, hub_vars, reload_vars, unload_vars, mig_vars, flow_vars,
    ext_vars, incl_vars>>

avail_others ==
    <<cond_vars, fw_vars, write_vars, update_vars, load_vars, cache_vars,
    opt_vars, hub_vars, reload_vars, unload_vars, mig_vars, flow_vars,
    ext_vars, incl_vars>>

load_others ==
    <<cond_vars, fw_vars, write_vars, update_vars, avail_vars, cache_vars,
    opt_vars, hub_vars, reload_vars, unload_vars, mig_vars, flow_vars,
    ext_vars, incl_vars>>

cache_others ==
    <<cond_vars, fw_vars, write_vars, update_vars, avail_vars, load_vars,
    opt_vars, hub_vars, reload_vars, unload_vars, mig_vars, flow_vars,
    ext_vars, incl_vars>>

opt_others ==
    <<cond_vars, fw_vars, write_vars, update_vars, avail_vars, load_vars,
    cache_vars, hub_vars, reload_vars, unload_vars, mig_vars, flow_vars,
    ext_vars, incl_vars>>

hub_others ==
    <<cond_vars, fw_vars, write_vars, update_vars, avail_vars, load_vars,
    cache_vars, opt_vars, reload_vars, unload_vars, mig_vars, flow_vars,
    ext_vars, incl_vars>>

reload_others ==
    <<cond_vars, fw_vars, write_vars, update_vars, avail_vars, load_vars,
    cache_vars, opt_vars, hub_vars, unload_vars, mig_vars, flow_vars,
    ext_vars, incl_vars>>

unload_others ==
    <<cond_vars, fw_vars, write_vars, update_vars, avail_vars, load_vars,
    cache_vars, opt_vars, hub_vars, reload_vars, mig_vars, flow_vars,
    ext_vars, incl_vars>>

mig_others ==
    <<cond_vars, fw_vars, write_vars, update_vars, avail_vars, load_vars,
    cache_vars, opt_vars, hub_vars, reload_vars, unload_vars, flow_vars,
    ext_vars, incl_vars>>

flow_others ==
    <<cond_vars, fw_vars, write_vars, update_vars, avail_vars, load_vars,
    cache_vars, opt_vars, hub_vars, reload_vars, unload_vars, mig_vars,
    ext_vars, incl_vars>>

ext_others ==
    <<cond_vars, fw_vars, write_vars, update_vars, avail_vars, load_vars,
    cache_vars, opt_vars, hub_vars, reload_vars, unload_vars, mig_vars,
    flow_vars, incl_vars>>

incl_others ==
    <<cond_vars, fw_vars, write_vars, update_vars, avail_vars, load_vars,
    cache_vars, opt_vars, hub_vars, reload_vars, unload_vars, mig_vars,
    flow_vars, ext_vars>>

InitCond ==
    /\ \/ /\ cond_tree \in Trees(SingleAtoms, 1)
          /\ dynamic_config \in SingleConfigs
          /\ condition = Render(cond_tree, 0, "root")
       \/ /\ cond_tree \in UNION {Trees(CompoundAtoms, n) : n \in 1..MaxLeaves}
          /\ dynamic_config \in CompoundConfigs
          /\ \E style \in 0..2 : condition = Render(cond_tree, style, "root")
    /\ cond_result = "pending"

\* a caller evaluates the condition of a register
EvaluateCondition ==
    /\ cond_result = "pending"
    /\ cond_result' = _evaluate_condition(condition, dynamic_config)
    /\ UNCHANGED <<cond_tree, condition, dynamic_config>>
    /\ UNCHANGED cond_others

NextCond == EvaluateCondition

CondIdle ==
    /\ cond_tree = <<>>
    /\ condition = <<>>
    /\ cond_result = "idle"

FwIdle ==
    /\ fw_sensor = <<>>
    /\ firmware_version = <<>>
    /\ sensor_replacements = <<>>
    /\ cf_result = Outcome(FALSE, "idle")
    /\ processed_sensors = <<>>
    /\ tl_result = Outcome(FALSE, "idle")

InitFw ==
    /\ fw_sensor \in Sensors
    /\ firmware_version \in DeviceFirmware
    /\ \E id \in {"s1", "s2"}, d \in ReplacementDicts :
           sensor_replacements = (id :> d)
    /\ dynamic_config \in {Config(PyInt(x), PyInt(5)) : x \in {1, 2}}
    /\ cf_result = Outcome(FALSE, "pending")
    /\ processed_sensors = <<>>
    /\ tl_result = Outcome(FALSE, "pending")

\* _process_dynamic_config handles one sensor of the template: filter it,
\* and if it is included append it with its firmware modifications
ProcessSensor ==
    /\ cf_result = Outcome(FALSE, "pending")
    /\ cf_result' = ConfigFlowShouldInclude(fw_sensor, firmware_version,
                                            dynamic_config)
    /\ processed_sensors' =
           IF cf_result'.include
           THEN Append(processed_sensors,
                       _apply_firmware_modifications(fw_sensor,
                           firmware_version, sensor_replacements))
           ELSE processed_sensors
    /\ UNCHANGED <<fw_sensor, firmware_version, sensor_replacements,
                   tl_result, dynamic_config>>
    /\ UNCHANGED fw_others

\* the template loader filters the same sensor
LoaderFilter ==
    /\ tl_result = Outcome(FALSE, "pending")
    /\ tl_result' = LoaderShouldInclude(fw_sensor, firmware_version,
                                        dynamic_config)
    /\ UNCHANGED <<fw_sensor, firmware_version, sensor_replacements,
                   cf_result, processed_sensors, dynamic_config>>
    /\ UNCHANGED fw_others

NextFw == ProcessSensor \/ LoaderFilter

(***************************************************************************)
(* async_set_native_value                                                  *)
(***************************************************************************)
NoCall == [called |-> FALSE, list |-> FALSE, write_value |-> <<>>,
           count |-> 0]

WriteIdle ==
    /\ register_config = <<>>
    /\ set_pc = "unused"
    /\ hub_call = NoCall
    /\ write_result = "none"
    /\ events = <<>>
    /\ errors_logged = 0
    /\ returned = "nothing"

DataTypes == {"uint16", "int16", "uint32", "int32", "float32", "float64"}

RegisterConfigs ==
    {[data_type |-> dt, scale |-> sc, multiplier |-> mu, offset |-> off,
      count |-> cnt, swap |-> sw] :
        dt \in DataTypes,
        sc \in {NoNum, Num(1, 0), Num(1, -1), Num(0, 0)},
        mu \in {NoNum, Num(2, 0)},
        off \in {Num(0, 0), Num(1, 0)},
        cnt \in {0, 2},
        sw \in {"none", "word"}}

\* display values: -5, 0, 2.5, 3, 70000
DisplayValues ==
    {Num(-5, 0), Num(0, 0), Num(5, -1), Num(3, 0), Num(70000, 0)}

SafeMaxima == {NoNum, Num(2, 0)}

InitWrite ==
    /\ register_config \in RegisterConfigs
    /\ set_pc = "idle"
    /\ hub_call = NoCall
    /\ write_result = "none"
    /\ events = <<>>
    /\ errors_logged = 0
    /\ returned = "nothing"

\* async_set_native_value up to "await hub.async_pb_call(...)"; when the
\* conversion raises, the handler logs the error and returns
SetNativeValue ==
    /\ set_pc = "idle"
    /\ \E value \in DisplayValues, max_safe_power \in SafeMaxima :
         LET enc == EncodeWrite(register_config,
                                LimitValue(value, max_safe_power))
         IN  IF enc.ok
             THEN /\ hub_call' = [called |-> TRUE, list |-> enc.list,
                                  write_value |-> enc.write_value,
                                  count |-> enc.count]
                  /\ events' = Append(events, "write_call")
                  /\ set_pc' = "write_pending"
                  /\ UNCHANGED <<errors_logged, returned>>
             ELSE /\ errors_logged' = errors_logged + 1
                  /\ set_pc' = "done"
                  /\ returned' = "None"
                  /\ UNCHANGED <<hub_call, events>>
    /\ UNCHANGED <<register_config, write_result>>
    /\ UNCHANGED write_others

\* variant of WriteReturns that requests the refresh whatever the result
WriteReturns_AlwaysRefresh ==
    /\ set_pc = "write_pending"
    /\ \E result \in BOOLEAN :
         /\ write_result' = IF result THEN "ok" ELSE "failed"
         /\ events' = events \o <<write_result', "refresh_request">>
         /\ set_pc' = "refresh_pending"
         /\ UNCHANGED <<errors_logged, returned>>
    /\ UNCHANGED <<register_config, hub_call>>
    /\ UNCHANGED write_others

\* the write call returns: request a refresh if the result is truthy, log
\* an error and return otherwise
WriteReturns ==
    /\ set_pc = "write_pending"
    /\ \E result \in BOOLEAN :
         /\ write_result' = IF result THEN "ok" ELSE "failed"
         /\ IF result
            THEN /\ events' = events \o <<"ok", "refresh_request">>
                 /\ set_pc' = "refresh_pending"
                 /\ UNCHANGED <<errors_logged, returned>>
            ELSE /\ events' = Append(events, "failed")
                 /\ errors_logged' = errors_logged + 1
                 /\ set_pc' = "done"
                 /\ returned' = "None"
    /\ UNCHANGED <<register_config, hub_call>>
    /\ UNCHANGED write_others

\* the write call raises: the handler logs the error and returns
WriteRaises ==
    /\ set_pc = "write_pending"
    /\ write_result' = "raised"
    /\ events' = Append(events, "raised")
    /\ errors_logged' = errors_logged + 1
    /\ set_pc' = "done"
    /\ returned' = "None"
    /\ UNCHANGED <<register_config, hub_call>>
    /\ UNCHANGED write_others

\* coordinator.async_request_refresh() returns
RefreshReturns ==
    /\ set_pc = "refresh_pending"
    /\ set_pc' = "done"
    /\ returned' = "None"
    /\ UNCHANGED <<register_config, hub_call, write_result, events,
                   errors_logged>>
    /\ UNCHANGED write_others

\* coordinator.async_request_refresh() raises
RefreshRaises ==
    /\ set_pc = "refresh_pending"
    /\ errors_logged' = errors_logged + 1
    /\ set_pc' = "done"
    /\ returned' = "None"
    /\ UNCHANGED <<register_config, hub_call, write_result, events>>
    /\ UNCHANGED write_others

NextWrite ==
    \/ SetNativeValue
    \/ WriteReturns
    \/ WriteRaises
    \/ RefreshReturns
    \/ RefreshRaises

(***************************************************************************)
(* _handle_coordinator_update                                              *)
(***************************************************************************)
UpdateIdle ==
    /\ entity_config = <<>>
    /\ register_data = <<>>
    /\ native_value = NoNum
    /\ native_max_value = NoNum
    /\ native_min_value = NoNum
    /\ attr_processed = PvNone
    /\ ha_state = NoNum
    /\ updates = 0
    /\ last_failure = "none"

\* register key of the entity and of the register its limits refer to
OwnKey == <<"n", "_", "1">>

LimitKey == <<"L", "i", "m", "_", "2">>

LimitRefs ==
    {NoRef,
     [kind |-> "str", register_unique_id |-> <<"l", "i", "m">>,
      fallback |-> NoNum],
     [kind |-> "dict", register_unique_id |-> <<"l", "i", "m">>,
      fallback |-> Num(80, 0)]}

\* what a poll cycle can publish for a register
OwnData ==
    {NoData, Data(TRUE, PvNone), Data(FALSE, PvNone),
     Data(FALSE, PvNum(Num(5, 0))), Data(FALSE, PvNum(Num(5, -1))),
     Data(FALSE, PvStr(<<"7">>)), Data(FALSE, PvStr(<<"a", "b", "c">>))}

LimitData ==
    {NoData, Data(FALSE, PvNum(Num(50, 0))), Data(FALSE, PvNum(Num(0, 0)))}

Snapshot(own, limit) ==
    (IF own.absent THEN <<>> ELSE <<[key |-> OwnKey, data |-> own]>>)
    \o (IF limit.absent THEN <<>> ELSE <<[key |-> LimitKey, data |-> limit]>>)

MaxUpdates == 3

StaticMax == Num(100, 0)

StaticMin == Num(0, 0)

FallbackOf(ref, static) == IF ref.kind = "dict" THEN ref.fallback ELSE static

InitUpdate ==
    /\ entity_config \in [max_value_from_register : LimitRefs,
                          min_value_from_register : LimitRefs]
    /\ register_data = <<>>
    /\ native_value = NoNum
    /\ native_max_value = StaticMax
    /\ native_min_value = StaticMin
    /\ attr_processed = PvNone
    /\ ha_state = NoNum
    /\ updates = 0
    /\ last_failure = "none"

\* variant of CoordinatorUpdate that keeps the previous value when the
\* register is missing from the snapshot
CoordinatorUpdate_KeepStale ==
    /\ updates < MaxUpdates
    /\ \E own \in OwnData, limit \in LimitData :
         /\ register_data' = Snapshot(own, limit)
         /\ native_value' = IF own.absent THEN native_value
                            ELSE UpdatedValue(register_data', OwnKey)
         /\ ha_state' = native_value'
    /\ last_failure' = "none"
    /\ updates' = updates + 1
    /\ UNCHANGED <<entity_config, native_max_value, native_min_value,
                   attr_processed>>
    /\ UNCHANGED update_others

\* the coordinator publishes a snapshot and the handler runs; failure tells
\* where the handler raises: "lookup" in get_register_data, "write_state"
\* in async_write_ha_state, "none" if it does not
CoordinatorUpdate ==
    /\ updates < MaxUpdates
    /\ \E own \in OwnData, limit \in LimitData,
          failure \in {"none", "lookup", "write_state"} :
         /\ register_data' = Snapshot(own, limit)
         /\ last_failure' = failure
         /\ native_value' = IF failure = "none"
                            THEN UpdatedValue(register_data', OwnKey)
                            ELSE NoNum
         /\ IF failure = "lookup"
            THEN UNCHANGED <<attr_processed, native_max_value,
                             native_min_value>>
            ELSE /\ attr_processed' =
                        UpdatedAttribute(register_data', OwnKey, attr_processed)
                 /\ native_max_value' =
                        UpdatedMax(entity_config.max_value_from_register,
                                   register_data', native_max_value,
                                   FallbackOf(
                                       entity_config.max_value_from_register,
                                       StaticMax))
                 /\ native_min_value' =
                        UpdatedMin(entity_config.min_value_from_register,
                                   register_data', native_min_value,
                                   FallbackOf(
                                       entity_config.min_value_from_register,
                                       StaticMin))
         /\ ha_state' = IF failure = "none" THEN native_value' ELSE ha_state
    /\ updates' = updates + 1
    /\ UNCHANGED entity_config
    /\ UNCHANGED update_others

NextUpdate == CoordinatorUpdate

(***************************************************************************)
(* available                                                               *)
(***************************************************************************)
AvailIdle ==
    /\ avail_dependency = NoDependency
    /\ coord_ok = FALSE
    /\ coord_data = <<>>
    /\ avail_result = "idle"

DepId == <<"d", "e", "p">>

DepKey == <<"d", "e", "p", "_", "7">>

\* required_value: 1, 161, "0xA1", or None
RequiredValuesOfDependency ==
    {PvNum(Num(1, 0)), PvNum(Num(161, 0)), PvStr(<<"0", "x", "A", "1">>),
     PvNone}

Dependencies ==
    {NoDependency}
    \cup {Dependency(DepId, required, has_address, 7) :
            required \in RequiredValuesOfDependency, has_address \in BOOLEAN}

ModeText == <<"M", "o", "d", "e">>

\* what the coordinator can hold for the dependency register: processed
\* value None, 1, 2, "1", "0xA1", or a mapped text with or without the
\* numeric value
DependencyEntries ==
    {DepEntry(FALSE, PvNone, PvNone),
     DepEntry(FALSE, PvNum(Num(1, 0)), PvNone),
     DepEntry(FALSE, PvNum(Num(2, 0)), PvNone),
     DepEntry(FALSE, PvStr(<<"1">>), PvNone),
     DepEntry(FALSE, PvStr(<<"0", "x", "A", "1">>), PvNone),
     DepEntry(FALSE, PvStr(ModeText), PvNum(Num(161, 0))),
     DepEntry(FALSE, PvStr(ModeText), PvNum(Num(1, 0))),
     DepEntry(FALSE, PvStr(ModeText), PvNone)}

OwnEntry == [key |-> OwnKey, data |-> DepEntry(FALSE, PvNum(Num(5, 0)), PvNone)]

InitAvail ==
    /\ avail_dependency \in Dependencies
    /\ coord_ok = FALSE
    /\ coord_data = <<>>
    /\ avail_result = "unread"

\* the coordinator finishes a cycle: its connection state and data change
PublishData ==
    /\ coord_ok' \in BOOLEAN
    /\ \E own \in BOOLEAN, dep \in DependencyEntries \cup {NoData} :
         coord_data' =
             (IF own THEN <<OwnEntry>> ELSE <<>>)
             \o (IF dep = NoData THEN <<>>
                 ELSE <<[key |-> DepKey, data |-> dep]>>)
    /\ avail_result' = "unread"
    /\ UNCHANGED avail_dependency
    /\ UNCHANGED avail_others

\* Home Assistant reads the available property
ReadAvailable ==
    /\ avail_result' =
           IF available(coord_ok, avail_dependency, coord_data)
           THEN "true" ELSE "false"
    /\ UNCHANGED <<avail_dependency, coord_ok, coord_data>>
    /\ UNCHANGED avail_others

NextAvail == PublishData \/ ReadAvailable

(***************************************************************************)
(* load_single_template                                                    *)
(***************************************************************************)
NoFile ==
    [name |-> "", type |-> "", description |-> "", sensors |-> <<>>,
     calculated |-> <<>>, binary_sensors |-> <<>>, controls |-> <<>>,
     dynamic_config |-> NoDynamicConfig]

LoadIdle ==
    /\ template_data = NoFile
    /\ load_done = FALSE
    /\ load_result = NoTemplate

NoSwitch == [configured |-> FALSE, on |-> 1, off |-> 0]

\* a valid uint16 register without an explicit count
BaseRegister ==
    [name |-> "r", has_required |-> TRUE, address |-> PyInt(10),
     data_type |-> "uint16", count |-> PyNone, scale |-> PvNum(Num(1, 0)),
     scan_interval |-> PyInt(30), control |-> "none",
     min_value |-> PyNone, max_value |-> PyNone, switch |-> NoSwitch,
     has_options |-> FALSE, group |-> "", entity_type |-> "",
     template |-> ""]

FloatRegister(data_type, count) ==
    [BaseRegister EXCEPT !.name = "f", !.data_type = data_type,
                         !.count = count]

ValidRegisters ==
    {BaseRegister,
     [BaseRegister EXCEPT !.name = "n", !.control = "number",
                          !.min_value = PyInt(0), !.max_value = PyInt(100)],
     FloatRegister("float32", PyNone),
     FloatRegister("float32", PyInt(2)),
     FloatRegister("float", PyInt(3)),
     FloatRegister("float64", PyInt(4))}

\* registers whose float count is below the minimum
ShortFloatRegisters ==
    {FloatRegister("float32", PyInt(1)),
     FloatRegister("float", PyInt(1)),
     FloatRegister("float64", PyInt(2)),
     FloatRegister("float64", PyInt(3))}

\* registers with one invalid setting each: address, data_type, count,
\* scale, scan_interval, control settings, a missing required field
InvalidRegisters ==
    ShortFloatRegisters
    \cup {[BaseRegister EXCEPT !.name = "a", !.address = PyInt(-1)],
          [BaseRegister EXCEPT !.name = "a", !.address = PyStr(<<"x">>)],
          [BaseRegister EXCEPT !.name = "d", !.data_type = "uint8"],
          [BaseRegister EXCEPT !.name = "c", !.count = PyInt(0)],
          [BaseRegister EXCEPT !.name = "s", !.scale = PvNum(Num(0, 0))],
          [BaseRegister EXCEPT !.name = "s", !.scale = PvNone],
          [BaseRegister EXCEPT !.name = "i", !.scan_interval = PyInt(-1)],
          [BaseRegister EXCEPT !.name = "n", !.control = "number",
                               !.min_value = PyInt(5),
                               !.max_value = PyInt(5)],
          [BaseRegister EXCEPT !.name = "w", !.control = "switch",
                               !.switch = [configured |-> TRUE, on |-> 1,
                                           off |-> 1]],
          [BaseRegister EXCEPT !.name = "q", !.has_required = FALSE]}

MaxRegisters == 2

RegisterLists ==
    UNION {[1..n -> ValidRegisters \cup InvalidRegisters] : n \in 0..MaxRegisters}

InitLoad ==
    /\ \E type \in {"device_template", "base_template"},
          sensors \in RegisterLists :
         template_data = [NoFile EXCEPT !.name = "T", !.type = type,
                                        !.sensors = sensors]
    /\ load_done = FALSE
    /\ load_result = NoTemplate

\* load_single_template reads the file, validates and returns
LoadSingleTemplate ==
    /\ ~load_done
    /\ load_done' = TRUE
    /\ load_result' = load_single_template(template_data)
    /\ UNCHANGED template_data
    /\ UNCHANGED load_others

NextLoad == LoadSingleTemplate

(***************************************************************************)
(* The template cache, load_templates, get_template_by_name and the        *)
(* config flow steps that work on a template                               *)
(***************************************************************************)
NoPaths == [A |-> "none", B |-> "none"]

EmptyCache == [builtin |-> NoTemplate, custom |-> NoTemplate]

CacheIdle ==
    /\ builtin_file = NoFile
    /\ custom_file = NoFile
    /\ template_cache = EmptyCache
    /\ name_to_path = NoPaths
    /\ flow_template = "none"
    /\ listed_done = FALSE
    /\ listed = <<>>
    /\ got_name = ""
    /\ got = NoTemplate

GroupRegister(name, group) ==
    [BaseRegister EXCEPT !.name = name, !.group = group]

InverterSensorLists ==
    LET pv == GroupRegister("pv", "PV_inverter")
        bat == GroupRegister("bat", "battery")
    IN  {<<pv>>, <<pv, bat>>, <<bat>>}

Entity(unique_id, group) == [unique_id |-> unique_id, group |-> group]

DynamicConfigs ==
    {NoDynamicConfig,
     [present |-> TRUE, phases |-> FieldOptions(3), modules |-> FieldAbsent]}

BuiltinFiles ==
    {[NoFile EXCEPT !.name = "A", !.type = "device_template",
                    !.description = "builtin", !.sensors = sensors,
                    !.calculated = calculated, !.binary_sensors = binary,
                    !.dynamic_config = dc] :
        sensors \in InverterSensorLists,
        calculated \in {<<>>, <<Entity("c", "calculated_battery")>>},
        binary \in {<<>>, <<Entity("b", "battery")>>},
        dc \in DynamicConfigs}

CustomFiles ==
    {NoFile}
    \cup {[NoFile EXCEPT !.name = name, !.type = "device_template",
                         !.description = "custom",
                         !.sensors = <<GroupRegister("cu", "PV_inverter")>>] :
            name \in {"A", "B"}}

UserInputs ==
    [phases : {NoInput, Input(1)}, modules : {NoInput, Input(4)}]

InitCache ==
    /\ builtin_file \in BuiltinFiles
    /\ custom_file \in CustomFiles
    /\ template_cache = EmptyCache
    /\ name_to_path = NoPaths
    /\ flow_template = "none"
    /\ listed_done = FALSE
    /\ listed = <<>>
    /\ got_name = ""
    /\ got = NoTemplate

\* load_single_template(path): the cached template of the path while the
\* file is unchanged, else the template loaded from the file
LoadPath(cache, path, file) ==
    IF cache[path].loaded THEN cache[path] ELSE load_single_template(file)

\* _template_name_to_path after a load of the path
PathRecorded(paths, cache, path, template) ==
    IF ~cache[path].loaded /\ template.loaded
    THEN [paths EXCEPT ![template.name] = path]
    ELSE paths

\* load_templates
LoadTemplates ==
    LET builtin == LoadPath(template_cache, "builtin", builtin_file)
        custom == MarkedCustom(LoadPath(template_cache, "custom", custom_file))
    IN  /\ template_cache' = [builtin |-> builtin, custom |-> custom]
        /\ name_to_path' =
               PathRecorded(
                   PathRecorded(name_to_path, template_cache, "builtin",
                                builtin),
                   template_cache, "custom", custom)
        /\ listed' = TemplatesDict(builtin, custom)
        /\ listed_done' = TRUE
        /\ UNCHANGED <<builtin_file, custom_file, flow_template, got_name,
                       got>>
        /\ UNCHANGED cache_others

\* a flow step asks get_template_by_name for a template and keeps it
GetTemplateByName ==
    \E template_name \in {"A", "B"} :
      LET custom == MarkedCustom(LoadPath(template_cache, "custom",
                                          custom_file))
          cached_path == name_to_path[template_name]
          cached == IF cached_path = "none" THEN NoTemplate
                    ELSE IF cached_path = "custom" THEN custom
                    ELSE template_cache[cached_path]
          builtin == LoadPath(template_cache, "builtin", builtin_file)
          source == TemplateSource(template_name, custom, cached, builtin)
          path == IF source = "cached" THEN cached_path ELSE source
          reached_builtin == source \in {"builtin", "none"}
      IN  /\ template_cache' =
                 [builtin |-> IF reached_builtin THEN builtin
                              ELSE template_cache.builtin,
                  custom |-> custom]
          /\ name_to_path' =
                 LET p1 == PathRecorded(name_to_path, template_cache,
                                        "custom", custom)
                 IN  IF reached_builtin
                     THEN PathRecorded(p1, template_cache, "builtin", builtin)
                     ELSE p1
          /\ got_name' = template_name
          /\ got' = IF source = "none" THEN NoTemplate
                    ELSE template_cache'[path]
          /\ flow_template' = IF source = "none" THEN flow_template ELSE path
          /\ UNCHANGED <<builtin_file, custom_file, listed_done, listed>>
          /\ UNCHANGED cache_others

\* _process_dynamic_config runs on the template the flow holds
ProcessDynamicConfig ==
    /\ flow_template # "none"
    /\ \E user_input \in UserInputs :
         template_cache' =
             [template_cache EXCEPT ![flow_template].dynamic_config =
                 ProcessedDynamicConfig(@, user_input)]
    /\ UNCHANGED <<builtin_file, custom_file, name_to_path, flow_template,
                   listed_done, listed, got_name, got>>
    /\ UNCHANGED cache_others

\* _filter_battery_registers_from_inverter runs on the template the flow
\* holds
FilterBatteryRegisters ==
    /\ flow_template # "none"
    /\ template_cache' =
           [template_cache EXCEPT ![flow_template] =
               FilteredInverterTemplate(@)]
    /\ UNCHANGED <<builtin_file, custom_file, name_to_path, flow_template,
                   listed_done, listed, got_name, got>>
    /\ UNCHANGED cache_others

NextCache ==
    \/ LoadTemplates
    \/ GetTemplateByName
    \/ ProcessDynamicConfig
    \/ FilterBatteryRegisters

(***************************************************************************)
(* The Range Optimizer run on a set of requested registers                 *)
(***************************************************************************)
OptIdle ==
    /\ opt_registers = <<>>
    /\ opt_max_span_words = 0
    /\ opt_max_gap_words = 0
    /\ opt_done = FALSE
    /\ opt_spans = <<>>

MaxOptRegisters == 3

RequestedRegisters ==
    {OptRegister("holding", address, word_count) :
        address \in {10, 11, 12, 20}, word_count \in {1, 2}}
    \cup {OptRegister("input", 10, 1)}

\* the register sets, as lists without repetition
RegisterSets ==
    {registers \in UNION {[1..n -> RequestedRegisters] :
                             n \in 0..MaxOptRegisters} :
        \A i, j \in 1..Len(registers) :
            i # j => registers[i] # registers[j]}

InitOpt ==
    /\ opt_registers \in RegisterSets
    /\ opt_max_span_words \in {1, 2, 4, 20}
    /\ opt_max_gap_words \in {0, 5}
    /\ opt_done = FALSE
    /\ opt_spans = <<>>

Optimize ==
    /\ ~opt_done
    /\ opt_spans' = optimize(opt_registers, opt_max_span_words,
                             opt_max_gap_words)
    /\ opt_done' = TRUE
    /\ UNCHANGED <<opt_registers, opt_max_span_words, opt_max_gap_words>>
    /\ UNCHANGED opt_others

NextOpt == Optimize

(***************************************************************************)
(* One hub: the poll cycle of its coordinator and the writes of its        *)
(* entities on the hub's transaction channel                               *)
(***************************************************************************)
Writers == {"w1", "w2"}

HubIdle ==
    /\ hub_channel = "free"
    /\ in_flight = {}
    /\ cycles = <<>>
    /\ refresh_requested = FALSE
    /\ ticks = 0
    /\ writers = [w \in Writers |-> "idle"]
    /\ writes = 0

MaxTicks == 2

MaxSpans == 2

MaxWrites == 2

InitHub ==
    /\ hub_channel = "free"
    /\ in_flight = {}
    /\ cycles = <<>>
    /\ refresh_requested \in BOOLEAN
    /\ ticks = 0
    /\ writers = [w \in Writers |-> "idle"]
    /\ writes = 0

\* the poll timer of the hub fires
TimerTick ==
    /\ ticks < MaxTicks
    /\ ticks' = ticks + 1
    /\ refresh_requested' = TRUE
    /\ UNCHANGED <<hub_channel, in_flight, cycles, writers, writes>>
    /\ UNCHANGED hub_others

\* variant of StartTick that does not wait for the running sequence
StartTick_Overlapping ==
    /\ refresh_requested
    /\ Len(cycles) < 2
    /\ \E spans \in 1..MaxSpans :
         cycles' = Append(cycles, [phase |-> "Reading", spans_left |-> spans])
    /\ refresh_requested' = FALSE
    /\ UNCHANGED <<hub_channel, in_flight, ticks, writers, writes>>
    /\ UNCHANGED hub_others

\* a tick starts: Idle -> Reading, with the spans of the active register set
StartTick ==
    /\ refresh_requested
    /\ cycles = <<>>
    /\ \E spans \in 1..MaxSpans :
         cycles' = Append(cycles, [phase |-> "Reading", spans_left |-> spans])
    /\ refresh_requested' = FALSE
    /\ UNCHANGED <<hub_channel, in_flight, ticks, writers, writes>>
    /\ UNCHANGED hub_others

\* the device read of the next span is issued
StartReadSpan ==
    \E i \in 1..Len(cycles) :
        /\ cycles[i].phase = "Reading"
        /\ cycles[i].spans_left > 0
        /\ hub_channel = "free"
        /\ hub_channel' = "poll"
        /\ in_flight' = in_flight \cup {"read"}
        /\ UNCHANGED <<cycles, refresh_requested, ticks, writers, writes>>
        /\ UNCHANGED hub_others

\* the device read of a span returns or fails
FinishReadSpan ==
    \E i \in 1..Len(cycles) :
        /\ cycles[i].phase = "Reading"
        /\ hub_channel = "poll"
        /\ hub_channel' = "free"
        /\ in_flight' = in_flight \ {"read"}
        /\ cycles' = [cycles EXCEPT ![i].spans_left = @ - 1]
        /\ UNCHANGED <<refresh_requested, ticks, writers, writes>>
        /\ UNCHANGED hub_others

\* Reading -> Decoding -> Published
Advance ==
    \E i \in 1..Len(cycles) :
        /\ \/ /\ cycles[i].phase = "Reading"
              /\ cycles[i].spans_left = 0
              /\ cycles' = [cycles EXCEPT ![i].phase = "Decoding"]
           \/ /\ cycles[i].phase = "Decoding"
              /\ cycles' = [cycles EXCEPT ![i].phase = "Published"]
        /\ UNCHANGED <<hub_channel, in_flight, refresh_requested, ticks,
                       writers, writes>>
        /\ UNCHANGED hub_others

\* Published -> Idle
CycleDone ==
    /\ cycles # <<>>
    /\ cycles[1].phase = "Published"
    /\ cycles' = Tail(cycles)
    /\ UNCHANGED <<hub_channel, in_flight, refresh_requested, ticks,
                   writers, writes>>
    /\ UNCHANGED hub_others

\* an entity asks for a write: async_set_native_value reaches the hub call
WriteRequest(w) ==
    /\ writers[w] = "idle"
    /\ writes < MaxWrites
    /\ writes' = writes + 1
    /\ writers' = [writers EXCEPT ![w] = "waiting"]
    /\ UNCHANGED <<hub_channel, in_flight, cycles, refresh_requested, ticks>>
    /\ UNCHANGED hub_others

\* variant of WriteStart that does not ask for the transaction channel
WriteStart_NoWait(w) ==
    /\ writers[w] = "waiting"
    /\ in_flight' = in_flight \cup {w}
    /\ writers' = [writers EXCEPT ![w] = "writing"]
    /\ UNCHANGED <<hub_channel, cycles, refresh_requested, ticks, writes>>
    /\ UNCHANGED hub_others

\* the write gets the transaction channel and goes to the device
WriteStart(w) ==
    /\ writers[w] = "waiting"
    /\ hub_channel = "free"
    /\ hub_channel' = w
    /\ in_flight' = in_flight \cup {w}
    /\ writers' = [writers EXCEPT ![w] = "writing"]
    /\ UNCHANGED <<cycles, refresh_requested, ticks, writes>>
    /\ UNCHANGED hub_others

\* the device acknowledges the write or the call fails; a successful write
\* requests a refresh
WriteFinish(w) ==
    /\ writers[w] = "writing"
    /\ hub_channel' = IF hub_channel = w THEN "free" ELSE hub_channel
    /\ in_flight' = in_flight \ {w}
    /\ writers' = [writers EXCEPT ![w] = "idle"]
    /\ \E result \in BOOLEAN :
         refresh_requested' = IF result THEN TRUE ELSE refresh_requested
    /\ UNCHANGED <<cycles, ticks, writes>>
    /\ UNCHANGED hub_others

NextHub ==
    \/ TimerTick
    \/ StartTick
    \/ StartReadSpan
    \/ FinishReadSpan
    \/ Advance
    \/ CycleDone
    \/ \E w \in Writers : WriteRequest(w)
    \/ \E w \in Writers : WriteStart(w)
    \/ \E w \in Writers : WriteFinish(w)

(***************************************************************************)
(* __init__.py: the reload_templates service                               *)
(***************************************************************************)
EntryIds == {"e1", "e2", "e3"}

ReloadIdle ==
    /\ reload_entries = {}
    /\ reload_loadable = [e \in EntryIds |-> FALSE]
    /\ reload_unloads = [e \in EntryIds |-> 0]
    /\ reload_setups = [e \in EntryIds |-> 0]
    /\ reload_calls = 0
    /\ updated_entries = 0

MaxReloadCalls == 2

\* every config entry has been set up once
InitReload ==
    /\ reload_entries \in SUBSET EntryIds
    /\ reload_loadable \in [EntryIds -> BOOLEAN]
    /\ reload_unloads = [e \in EntryIds |-> 0]
    /\ reload_setups = [e \in EntryIds |-> IF e \in reload_entries
                                            THEN 1 ELSE 0]
    /\ reload_calls = 0
    /\ updated_entries = 0

\* the entries the call is about: all, or the one of entry_id
Selected(entry_id_filter) ==
    {e \in reload_entries : entry_id_filter = "" \/ e = entry_id_filter}

\* the entries whose template was loaded again and whose data was updated
Updated(entry_id_filter) ==
    {e \in Selected(entry_id_filter) : reload_loadable[e]}

\* hass.config_entries.async_reload(entry_id): unload and set up again
Reloaded(counts, entries) ==
    [e \in EntryIds |-> IF e \in entries THEN counts[e] + 1 ELSE counts[e]]

reload_templates_service ==
    /\ reload_calls < MaxReloadCalls
    /\ reload_calls' = reload_calls + 1
    /\ \E entry_id_filter \in {""} \cup EntryIds :
         LET reloaded == IF Updated(entry_id_filter) # {}
                         THEN Selected(entry_id_filter) ELSE {}
         IN  /\ updated_entries' = Cardinality(Updated(entry_id_filter))
             /\ reload_unloads' = Reloaded(reload_unloads, reloaded)
             /\ reload_setups' = Reloaded(reload_setups, reloaded)
    /\ UNCHANGED <<reload_entries, reload_loadable>>
    /\ UNCHANGED reload_others

NextReload == reload_templates_service

(***************************************************************************)
(* Config entries, their hubs, async_unload_entry and the reload section   *)
(* of the reload_templates service                                         *)
(***************************************************************************)
Entries == {"e1", "e2"}

Hosts == {"h1", "h2"}

Calls == {"c1", "c2"}

UnloadIdle ==
    /\ entry_host = [e \in Entries |-> "h1"]
    /\ runtime_data = [e \in Entries |-> FALSE]
    /\ hub_state = [e \in Entries |-> "none"]
    /\ hub_refcount = [h \in Hosts |-> 0]
    /\ reload_in_progress = FALSE
    /\ svc_phase = [c \in Calls |-> "idle"]
    /\ svc_updated = [c \in Calls |-> 0]
    /\ flag_setters = {}
    /\ flag_at_finish = [c \in Calls |-> "none"]
    /\ last_unload = NoUnload

MaxRefcount == 2

\* every entry has been set up; the reference counts are what the rest of
\* the integration left in hass.data
InitUnload ==
    /\ entry_host \in [Entries -> Hosts]
    /\ runtime_data = [e \in Entries |-> TRUE]
    /\ hub_state = [e \in Entries |-> "open"]
    /\ hub_refcount \in [Hosts -> 0..MaxRefcount]
    /\ reload_in_progress = FALSE
    /\ svc_phase = [c \in Calls |-> "idle"]
    /\ svc_updated = [c \in Calls |-> 0]
    /\ flag_setters = {}
    /\ flag_at_finish = [c \in Calls |-> "none"]
    /\ last_unload = NoUnload

\* the effect of async_unload_entry on an entry with runtime data;
\* hub.async_close may fail
Unloaded(e, close_ok) ==
    LET is_reload == reload_in_progress
        host == entry_host[e]
        new_refcount == DecrementedRefcount(hub_refcount[host])
        closes == ClosesHub(new_refcount, is_reload)
    IN  [hub_state |-> IF closes /\ close_ok
                       THEN [hub_state EXCEPT ![e] = "closed"]
                       ELSE hub_state,
         hub_refcount |-> [hub_refcount EXCEPT ![host] = new_refcount],
         runtime_data |-> IF DeletesData(is_reload)
                          THEN [runtime_data EXCEPT ![e] = FALSE]
                          ELSE runtime_data,
         last_unload |-> [entry |-> e, is_reload |-> is_reload,
                          new_refcount |-> new_refcount,
                          closes |-> closes /\ close_ok,
                          deletes |-> DeletesData(is_reload)]]

\* async_unload_entry, when an entry is removed or disabled
UnloadEntry ==
    \E e \in Entries, close_ok \in BOOLEAN :
        /\ runtime_data[e]
        /\ hub_state' = Unloaded(e, close_ok).hub_state
        /\ hub_refcount' = Unloaded(e, close_ok).hub_refcount
        /\ runtime_data' = Unloaded(e, close_ok).runtime_data
        /\ last_unload' = Unloaded(e, close_ok).last_unload
        /\ UNCHANGED <<entry_host, reload_in_progress, svc_phase,
                       svc_updated, flag_setters, flag_at_finish>>
        /\ UNCHANGED unload_others

\* _setup_coordinator_entry: a new hub, stored with the entry's runtime data
SetupEntry ==
    \E e \in Entries :
        /\ ~runtime_data[e]
        /\ runtime_data' = [runtime_data EXCEPT ![e] = TRUE]
        /\ hub_state' = [hub_state EXCEPT ![e] = "open"]
        /\ UNCHANGED <<entry_host, hub_refcount, reload_in_progress,
                       svc_phase, svc_updated, flag_setters, flag_at_finish,
                       last_unload>>
        /\ UNCHANGED unload_others

\* reload_templates_service up to its reload section
ServiceStart ==
    \E c \in Calls, updated \in 0..Cardinality(Entries) :
        /\ svc_phase[c] = "idle"
        /\ svc_updated' = [svc_updated EXCEPT ![c] = updated]
        /\ IF updated > 0
           THEN /\ reload_in_progress' = TRUE
                /\ flag_setters' = flag_setters \cup {c}
                /\ svc_phase' = [svc_phase EXCEPT ![c] = "reloading"]
           ELSE /\ svc_phase' = [svc_phase EXCEPT ![c] = "done"]
                /\ UNCHANGED <<reload_in_progress, flag_setters>>
        /\ UNCHANGED <<entry_host, runtime_data, hub_state, hub_refcount,
                       flag_at_finish, last_unload>>
        /\ UNCHANGED unload_others

\* hass.config_entries.async_reload(entry_id) inside the service: unload,
\* then set up again; an error of the reload is caught and logged
ReloadEntry ==
    \E c \in Calls, e \in Entries, close_ok \in BOOLEAN,
       setup_ok \in BOOLEAN :
        /\ svc_phase[c] = "reloading"
        /\ runtime_data[e]
        /\ hub_refcount' = Unloaded(e, close_ok).hub_refcount
        /\ last_unload' = Unloaded(e, close_ok).last_unload
        /\ IF setup_ok
           THEN /\ runtime_data' = [runtime_data EXCEPT ![e] = TRUE]
                /\ hub_state' = [hub_state EXCEPT ![e] = "open"]
           ELSE /\ runtime_data' = Unloaded(e, close_ok).runtime_data
                /\ hub_state' = Unloaded(e, close_ok).hub_state
        /\ UNCHANGED <<entry_host, reload_in_progress, svc_phase,
                       svc_updated, flag_setters, flag_at_finish>>
        /\ UNCHANGED unload_others

\* variant of ServiceRaises without the finally clause
ServiceRaises_NoFinally ==
    \E c \in Calls :
        /\ svc_phase[c] = "reloading"
        /\ svc_phase' = [svc_phase EXCEPT ![c] = "failed"]
        /\ flag_at_finish' =
               [flag_at_finish EXCEPT ![c] =
                   IF reload_in_progress THEN "set" ELSE "clear"]
        /\ UNCHANGED <<entry_host, runtime_data, hub_state, hub_refcount,
                       reload_in_progress, svc_updated, flag_setters,
                       last_unload>>
        /\ UNCHANGED unload_others

\* an error leaves the reload loop; the finally clause clears the flag
ServiceRaises ==
    \E c \in Calls :
        /\ svc_phase[c] = "reloading"
        /\ reload_in_progress' = FALSE
        /\ svc_phase' = [svc_phase EXCEPT ![c] = "failed"]
        /\ flag_at_finish' = [flag_at_finish EXCEPT ![c] = "clear"]
        /\ UNCHANGED <<entry_host, runtime_data, hub_state, hub_refcount,
                       svc_updated, flag_setters, last_unload>>
        /\ UNCHANGED unload_others

\* the reload loop ends; the finally clause clears the flag
ServiceEnd ==
    \E c \in Calls :
        /\ svc_phase[c] = "reloading"
        /\ reload_in_progress' = FALSE
        /\ svc_phase' = [svc_phase EXCEPT ![c] = "done"]
        /\ flag_at_finish' = [flag_at_finish EXCEPT ![c] = "clear"]
        /\ UNCHANGED <<entry_host, runtime_data, hub_state, hub_refcount,
                       svc_updated, flag_setters, last_unload>>
        /\ UNCHANGED unload_others

NextUnload ==
    \/ UnloadEntry
    \/ SetupEntry
    \/ ServiceStart
    \/ ReloadEntry
    \/ ServiceRaises
    \/ ServiceEnd

(***************************************************************************)
(* A legacy config entry and the calls that migrate it                     *)
(***************************************************************************)
NoEntry == [version |-> 0, data |-> ("host" :> "")]

MigIdle ==
    /\ mig_legacy = NoEntry
    /\ mig_entry = NoEntry
    /\ mig_before = NoEntry
    /\ mig_calls = 0
    /\ mig_recognised = FALSE
    /\ mig_last = ""

MaxMigrations == 2

\* the data a key may hold; {} alone when the key is always absent
Optional(key, values) ==
    {("host" :> "h1")} \cup {(key :> v) @@ ("host" :> "h1") : v \in values}

LegacyData ==
    {t @@ p @@ s @@ bt @@ bp @@ ty @@ mt @@ hub :
        t \in Optional("template", {"", "T"}),
        p \in Optional("prefix", {"inv"}),
        s \in Optional("slave_id", {5}),
        bt \in Optional("battery_template", {"", "none", "other", "sbr"}),
        bp \in Optional("battery_prefix", {"BAT"}),
        ty \in Optional("type", {"tcp"}),
        mt \in Optional("modbus_type", {"rtu"}),
        hub \in Optional("hub", {HubConfig(("host" :> "h1"))})}

InitMig ==
    /\ mig_legacy \in [version : {1}, data : LegacyData]
    /\ mig_entry = mig_legacy
    /\ mig_before = mig_legacy
    /\ mig_calls = 0
    /\ mig_recognised = FALSE
    /\ mig_last = ""

\* Home Assistant or a caller runs async_migrate_entry
MigrateEntry ==
    /\ mig_calls < MaxMigrations
    /\ mig_calls' = mig_calls + 1
    /\ mig_before' = mig_entry
    /\ mig_recognised' = AlreadyMigrated(mig_entry)
    /\ mig_entry' = async_migrate_entry(mig_entry)
    /\ mig_last' = "migrate"
    /\ UNCHANGED mig_legacy
    /\ UNCHANGED mig_others

\* async_setup_entry: the fallback migration check
SetupFallback ==
    /\ mig_calls < MaxMigrations
    /\ mig_calls' = mig_calls + 1
    /\ mig_before' = mig_entry
    /\ IF NeedsFallbackMigration(mig_entry)
       THEN /\ mig_recognised' = AlreadyMigrated(mig_entry)
            /\ mig_entry' = async_migrate_entry(mig_entry)
       ELSE /\ mig_recognised' = TRUE
            /\ UNCHANGED mig_entry
    /\ mig_last' = "setup"
    /\ UNCHANGED mig_legacy
    /\ UNCHANGED mig_others

NextMig ==
    \/ MigrateEntry
    \/ SetupFallback

(***************************************************************************)
(* The steps of the config flow and of the options flow                    *)
(***************************************************************************)
\* variant of ConditionNotMet for which every condition is met
ConditionNotMet_AlwaysMet(template, data) == FALSE

\* `condition and not _evaluate_condition(condition, data)`
ConditionNotMet(template, data) ==
    /\ template.condition # <<>>
    /\ condition_results[Get(data, "connection_type", "")] = "false"

\* the step of the config flow that ends the dialogue, by the template and
\* the answers of the user (async_step_dynamic_config and the battery steps)
FinalStep(template, user_input) ==
    IF template.type \in {"pv_inverter", "pv_hybrid_inverter"}
       /\ template.battery_config
    THEN IF ConditionNotMet(template, user_input) THEN "without_battery"
         ELSE IF ~ user_input["battery_available"] THEN "without_battery"
         ELSE IF user_input["battery_template"] = "other" THEN "other_battery"
         ELSE "with_battery"
    ELSE "final_config"

\* the devices the battery workflow hands to async_step_final_config
BatteryWorkflowDevices(user_input) ==
    << ("type" :> "inverter" @@ "template" :> user_input["template"]
        @@ "prefix" :> user_input["prefix"]
        @@ "slave_id" :> user_input["slave_id"]),
       ("type" :> "battery" @@ "template" :> user_input["battery_template"]
        @@ "prefix" :> user_input["battery_prefix"]
        @@ "slave_id" :> user_input["battery_slave_id"]) >>

\* battery_config and battery_enabled of _process_dynamic_config
ProcessedBattery(template, battery_config) ==
    IF template.sbr_in_name \/ template.type = "battery"
    THEN [battery_config |-> "sbr_battery", battery_enabled |-> TRUE]
    ELSE [battery_config |-> battery_config,
          battery_enabled |-> battery_config # "none"]

\* battery_config in the input of async_step_final_config
StepBatteryConfig(step, user_input) ==
    CASE step = "without_battery" -> "none"
      [] step = "other_battery" -> "other"
      [] step = "with_battery" -> user_input["battery_template"]
      [] OTHER -> "none"

\* config_data of _create_regular_entry
ConfigData(template, step, user_input) ==
    LET processed ==
            ProcessedBattery(template, StepBatteryConfig(step, user_input))
        devices ==
            IF step = "with_battery" THEN BatteryWorkflowDevices(user_input)
            ELSE << ("type" :> "inverter" @@ "template" :> template.name
                     @@ "prefix" :> user_input["prefix"]
                     @@ "slave_id" :> user_input["slave_id"]) >>
        base ==
            "host" :> user_input["host"] @@ "port" :> user_input["port"]
            @@ "devices" :> devices
            @@ "template" :> template.name
            @@ "prefix" :> user_input["prefix"]
            @@ "slave_id" :> user_input["slave_id"]
            @@ "firmware_version" :> user_input["firmware_version"]
            @@ "registers" :>
                   RegistersFor(template.name, user_input["firmware_version"])
    IN  IF template.dynamic_config
        THEN base @@ "battery_config" :> processed.battery_config
                  @@ "battery_enabled" :> processed.battery_enabled
                  @@ "connection_type" :> user_input["connection_type"]
        ELSE base

\* variant of ExistingEntry that finds no entry
ExistingEntry_NoLookup(entries, host, port) == 0

\* the first config entry with the host and the port, 0 if there is none
ExistingEntry(entries, host, port) ==
    LET found == {i \in 1..Len(entries) :
                     /\ Get(entries[i], "host", "") = host
                     /\ Get(entries[i], "port", 502) = port}
    IN  IF found = {} THEN 0 ELSE SetMin(found)

\* the device _create_regular_entry adds to an existing entry
NewDevice(template, config_data) ==
    "type" :> template.type @@ "template" :> config_data["template"]
    @@ "prefix" :> config_data["prefix"]
    @@ "slave_id" :> config_data["slave_id"]

\* the device with the slave_id of new_device is replaced, else it is appended
ExtendedDevices(existing_devices, new_device) ==
    LET same == {i \in 1..Len(existing_devices) :
                    existing_devices[i]["slave_id"] = new_device["slave_id"]}
    IN  IF same = {} THEN Append(existing_devices, new_device)
        ELSE [existing_devices EXCEPT ![SetMin(same)] = new_device]

\* the devices of a list with a type
OfType(devices, type) ==
    SelectSeq(devices, LAMBDA device : device["type"] = type)

NotOfType(devices, type) ==
    SelectSeq(devices, LAMBDA device : device["type"] # type)

\* the step async_step_init of the options flow hands the form to, for the
\* forms whose update_template box is not ticked
OptionsRoute(user_input) ==
    IF "battery_config" \in DOMAIN user_input
    THEN IF /\ user_input["battery_config"] # "none"
            /\ user_input["battery_config"] \in KnownTemplates
         THEN "battery_config"
         ELSE "apply_config_changes"
    ELSE IF "firmware_version" \in DOMAIN user_input
         THEN "firmware_update"
         ELSE "apply_config_changes"

\* the input of apply_config_changes after the battery_config condition of
\* the template has been evaluated for {**entry.data, **user_input}
ForcedInput(template, data, user_input) ==
    IF ConditionNotMet(template, user_input @@ data)
    THEN ("battery_config" :> "none" @@ "battery_template" :> "none")
         @@ user_input
    ELSE user_input

DynamicParams ==
    {"phases", "mppt_count", "battery_config", "battery_template",
     "battery_prefix", "battery_slave_id", "battery_model",
     "battery_modules", "connection_type", "meter_type", "firmware_version",
     "selected_model"}

\* variant of DynamicConfigChanged that finds no change
DynamicConfigChanged_Never(data, user_input) == FALSE

\* a dynamic parameter of the input differs from the stored value
DynamicConfigChanged(data, user_input) ==
    \E param \in DynamicParams \cap DOMAIN user_input :
        param \notin DOMAIN data \/ data[param] # user_input[param]

\* the battery device apply_config_changes builds for a battery template
OptionsBatteryDevice(battery_selection, new_data) ==
    "type" :> "battery" @@ "template" :> battery_selection
    @@ "prefix" :> Get(new_data, "battery_prefix", "SBR")
    @@ "slave_id" :> Get(new_data, "battery_slave_id", 200)

\* variant of SyncedDevices that keeps the battery devices
SyncedDevices_KeepBattery(devices, battery_selection, new_data) == devices

\* the devices list after the battery selection has been applied to it
SyncedDevices(devices, battery_selection, new_data) ==
    LET batteries == {i \in 1..Len(devices) : devices[i]["type"] = "battery"}
    IN  IF devices = <<>> \/ battery_selection = "" THEN devices
        ELSE IF battery_selection \in {"none", "other"}
        THEN NotOfType(devices, "battery")
        ELSE IF batteries # {}
        THEN [devices EXCEPT ![SetMin(batteries)] =
                 OptionsBatteryDevice(battery_selection, new_data)]
        ELSE Append(devices, OptionsBatteryDevice(battery_selection, new_data))

\* the dynamic parameters of the input are copied to the devices that use
\* the template of the entry
DeviceConfigSynced(devices, template_name, user_input) ==
    LET keys == DynamicParams \cap DOMAIN user_input
    IN  [i \in 1..Len(devices) |->
            IF devices[i]["template"] = template_name
            THEN [k \in keys |-> user_input[k]] @@ devices[i]
            ELSE devices[i]]

\* async_step_apply_config_changes: the data it stores, and what it does
\* with the entry, in order
apply_config_changes(data, user_input0) ==
    LET template == FlowTemplate(Get(data, "template", "Unknown"))
        user_input == ForcedInput(template, data, user_input0)
        updated == user_input @@ data
        enabled ==
            IF "battery_config" \in DOMAIN user_input
            THEN "battery_enabled" :> (user_input["battery_config"] # "none")
                 @@ updated
            ELSE updated
        battery_selection == Get(enabled, "battery_config", "")
        new_data ==
            IF battery_selection # ""
            THEN "battery_template" :> battery_selection @@ enabled
            ELSE enabled
        devices == Get(new_data, "devices", <<>>)
        battery_removed ==
            /\ battery_selection \in {"none", "other"}
            /\ OfType(devices, "battery") # <<>>
        synced ==
            DeviceConfigSynced(
                SyncedDevices(devices, battery_selection, new_data),
                template.name, user_input)
        stored ==
            Without(Without(
                IF "devices" \in DOMAIN new_data
                THEN "devices" :> synced @@ new_data ELSE new_data,
                "update_template"), "configure_battery")
        reload == battery_removed \/ DynamicConfigChanged(data, user_input)
    IN  [data |-> stored,
         user_input |-> user_input,
         battery_removed |-> battery_removed,
         log |-> IF reload THEN <<"update", "reload">> ELSE <<"update">>]

\* async_step_firmware_update
firmware_update(data, user_input) ==
    LET new_firmware_version == Get(user_input, "firmware_version", "1.0.0")
    IN  IF new_firmware_version = Get(data, "firmware_version", "1.0.0")
        THEN [data |-> data, user_input |-> user_input,
              battery_removed |-> FALSE, log |-> <<>>]
        ELSE [data |-> "firmware_version" :> new_firmware_version
                       @@ "registers" :>
                              RegistersFor(Get(data, "template", "Unknown"),
                                           new_firmware_version)
                       @@ data,
              user_input |-> user_input,
              battery_removed |-> FALSE,
              log |-> <<"update", "reload">>]

\* the options flow from the submitted form to its end; the form of the
\* battery step is filled in when the flow shows it
options_flow(data, user_input, battery_form) ==
    CASE OptionsRoute(user_input) = "battery_config" ->
            apply_config_changes(data, user_input @@ battery_form)
      [] OptionsRoute(user_input) = "firmware_update" ->
            firmware_update(data, user_input)
      [] OTHER -> apply_config_changes(data, user_input)

(***************************************************************************)
(* The config entries of the integration: config flows that create or      *)
(* extend an entry and options flows that change one                       *)
(***************************************************************************)
FlowIdle ==
    /\ config_entries = <<>>
    /\ flow_kind = "none"
    /\ flow_input = <<>>
    /\ flow_entry = 0
    /\ flow_before = <<>>
    /\ flow_result = "none"
    /\ flow_log = <<>>
    /\ flow_count = 0
    /\ condition_results = <<>>

MaxFlows == 2

\* the hubs the config flows are run for
FlowEndpoints ==
    {[host |-> "h1", port |-> 502], [host |-> "h2", port |-> 502],
     [host |-> "h1", port |-> 503]}

\* the answers of the user to the forms of the config flow
ConfigFlowInputs ==
    [host : Hosts, port : {endpoint.port : endpoint \in FlowEndpoints},
     template : KnownTemplates, prefix : {"SG"}, slave_id : {1, 2},
     connection_type : {"LAN", "WINET"}, firmware_version : {"1.0"},
     battery_available : BOOLEAN, battery_template : {"other", "sbr_battery"},
     battery_prefix : {"SBR"}, battery_slave_id : {200}]

\* the forms of the battery steps are shown only on the way to them
Answered(user_input) ==
    LET template == FlowTemplate(user_input["template"])
        asked == /\ template.type \in {"pv_inverter", "pv_hybrid_inverter"}
                 /\ template.battery_config
                 /\ ~ ConditionNotMet(template, user_input)
    IN  /\ [host |-> user_input["host"], port |-> user_input["port"]]
           \in FlowEndpoints
        /\ ~ asked => ~ user_input["battery_available"]
        /\ ~ template.dynamic_config => user_input["connection_type"] = "LAN"
        /\ ~ user_input["battery_available"]
           => user_input["battery_template"] = "other"

OptionalField(key, values) ==
    {("timeout" :> 10)} \cup {(key :> v) @@ ("timeout" :> 10) : v \in values}

\* the fields of the options form that reach async_step_init
OptionsInputs ==
    {b @@ c @@ f @@ u :
        b \in OptionalField("battery_config", {"none", "other", "sbr_battery"}),
        c \in OptionalField("connection_type", {"LAN", "WINET"}),
        f \in OptionalField("firmware_version", {"2.0"}),
        u \in OptionalField("update_template", {FALSE})}

\* the form of the battery step of the options flow
BatteryForms == {("battery_prefix" :> "BAT") @@ ("battery_slave_id" :> 201)}

InitFlow ==
    /\ config_entries = <<>>
    /\ flow_kind = "none"
    /\ flow_input = <<>>
    /\ flow_entry = 0
    /\ flow_before = <<>>
    /\ flow_result = "none"
    /\ flow_log = <<>>
    /\ flow_count = 0
    /\ condition_results = ConnectionConditionResult

\* a config flow reaches _create_regular_entry
FinishConfigFlow ==
    /\ flow_count < MaxFlows
    /\ \E user_input \in ConfigFlowInputs :
        LET template == FlowTemplate(user_input["template"])
            step == FinalStep(template, user_input)
            config_data == ConfigData(template, step, user_input)
            existing == ExistingEntry(config_entries, config_data["host"],
                                      config_data["port"])
        IN  /\ Answered(user_input)
            /\ flow_input' = user_input
            /\ IF existing # 0
               THEN /\ config_entries' =
                        [config_entries EXCEPT ![existing] =
                            "devices" :>
                                ExtendedDevices(
                                    Get(config_entries[existing], "devices",
                                        <<>>),
                                    NewDevice(template, config_data))
                            @@ config_entries[existing]]
                    /\ flow_entry' = existing
                    /\ flow_log' = <<"update", "reload">>
                    /\ flow_result' = "device_added_to_existing_hub"
               ELSE /\ config_entries' = Append(config_entries, config_data)
                    /\ flow_entry' = Len(config_entries) + 1
                    /\ flow_log' = <<>>
                    /\ flow_result' = "create_entry"
    /\ flow_kind' = "config"
    /\ flow_before' = config_entries
    /\ flow_count' = flow_count + 1
    /\ UNCHANGED condition_results
    /\ UNCHANGED flow_others

\* the options form of an entry is submitted and the options flow runs to
\* its end
SubmitOptions ==
    /\ flow_count < MaxFlows
    /\ \E entry \in 1..Len(config_entries), user_input \in OptionsInputs,
          battery_form \in BatteryForms :
        LET done == options_flow(config_entries[entry], user_input,
                                 battery_form)
        IN  /\ config_entries' = [config_entries EXCEPT ![entry] = done.data]
            /\ flow_input' = user_input
            /\ flow_entry' = entry
            /\ flow_log' = done.log
            /\ flow_result' = OptionsRoute(user_input)
    /\ flow_kind' = "options"
    /\ flow_before' = config_entries
    /\ flow_count' = flow_count + 1
    /\ UNCHANGED condition_results
    /\ UNCHANGED flow_others

NextFlow ==
    \/ FinishConfigFlow
    \/ SubmitOptions

(***************************************************************************)
(* A template file that may extend a base template, and its loaders        *)
(***************************************************************************)
ExtIdle ==
    /\ ext_data = <<>>
    /\ ext_base_templates = <<>>
    /\ ext_loader = "none"
    /\ ext_result = NotLoaded

MaxBaseEntities == 2

\* calculated entities of a file: with unique_id a or b, or without one
CalculatedEntries(file) ==
    {("unique_id" :> "a") @@ ("file" :> file),
     ("unique_id" :> "b") @@ ("file" :> file),
     ("file" :> file)}

\* controls of a file: with the name a, or without a name
ControlEntries(file) ==
    {("name" :> "a") @@ ("file" :> file), ("file" :> file)}

ListsOf(entries, max) == UNION {[1..n -> entries] : n \in 0..max}

\* the base templates load_base_templates has found
BaseTemplates ==
    {<<>>}
    \cup {("base" :> [calculated |-> calculated, controls |-> controls]) :
             calculated \in ListsOf(CalculatedEntries("base"), MaxBaseEntities),
             controls \in ListsOf(ControlEntries("base"), 1)}

\* the files: with or without extends, with or without the two keys of a
\* simplified template
ExtendingFiles ==
    [name : {"T"}, type : {"device_template"}, extends : {"", "base"},
     required_fields : BOOLEAN, auto_generated_sensors : BOOLEAN,
     sensors : {<<>>, <<BaseRegister>>},
     custom_registers : {<<>>, <<BaseRegister>>},
     calculated : ListsOf(CalculatedEntries("custom"), 1),
     controls : {<<>>},
     custom_controls : ListsOf(ControlEntries("custom"), 1)]

InitExt ==
    /\ ext_data \in ExtendingFiles
    /\ ext_base_templates \in BaseTemplates
    /\ ext_loader = "none"
    /\ ext_result = NotLoaded

\* load_templates_from_dir loads the file with load_single_template
LoadWithBase ==
    /\ ext_loader = "none"
    /\ ext_loader' = "load_single_template"
    /\ ext_result' =
           load_single_template_with_base(ext_data, ext_base_templates)
    /\ UNCHANGED <<ext_data, ext_base_templates>>
    /\ UNCHANGED ext_others

\* load_templates loads the file with load_mapping_template
LoadMappingTemplate ==
    /\ ext_loader = "none"
    /\ ext_loader' = "load_mapping_template"
    /\ ext_result' = load_mapping_template(ext_data, ext_base_templates)
    /\ UNCHANGED <<ext_data, ext_base_templates>>
    /\ UNCHANGED ext_others

NextExt ==
    \/ LoadWithBase
    \/ LoadMappingTemplate

(***************************************************************************)
(* template_loader._should_include_sensor on a sensor with a condition     *)
(***************************************************************************)
InclIdle ==
    /\ incl_condition = <<>>
    /\ incl_config = <<>>
    /\ incl_result = Outcome(FALSE, "idle")

\* a sensor no other filter of _should_include_sensor applies to
ConditionSensor(cond) ==
    [unique_id |-> "s1", address |-> 100, description |-> "base",
     firmware_min_version |-> <<>>, condition |-> cond,
     other |-> "none"]

InitIncl ==
    /\ \/ /\ incl_config \in SingleConfigs
          /\ \E tree \in Trees(SingleAtoms, 1) :
                 incl_condition = Render(tree, 0, "root")
       \/ /\ incl_config \in CompoundConfigs
          /\ \E tree \in UNION {Trees(CompoundAtoms, n) : n \in 1..MaxLeaves},
                style \in 0..2 :
                 incl_condition = Render(tree, style, "root")
    /\ incl_result = Outcome(FALSE, "pending")

\* the template loader filters the sensor
ShouldIncludeSensor ==
    /\ incl_result = Outcome(FALSE, "pending")
    /\ \E fw \in DeviceFirmware :
           incl_result' = LoaderShouldInclude(ConditionSensor(incl_condition),
                                              fw, incl_config)
    /\ UNCHANGED <<incl_condition, incl_config>>
    /\ UNCHANGED incl_others

NextIncl == ShouldIncludeSensor

(***************************************************************************)
(* Specifications                                                          *)
(***************************************************************************)
CondFwIdle == CondIdle /\ dynamic_config = <<>> /\ FwIdle

InitCondSpec ==
    /\ InitCond
    /\ FwIdle
    /\ WriteIdle
    /\ UpdateIdle
    /\ AvailIdle
    /\ LoadIdle
    /\ CacheIdle
    /\ OptIdle
    /\ HubIdle
    /\ ReloadIdle
    /\ UnloadIdle
    /\ MigIdle
    /\ FlowIdle
    /\ ExtIdle
    /\ InclIdle

InitFwSpec ==
    /\ InitFw
    /\ CondIdle
    /\ WriteIdle
    /\ UpdateIdle
    /\ AvailIdle
    /\ LoadIdle
    /\ CacheIdle
    /\ OptIdle
    /\ HubIdle
    /\ ReloadIdle
    /\ UnloadIdle
    /\ MigIdle
    /\ FlowIdle
    /\ ExtIdle
    /\ InclIdle

InitWriteSpec ==
    /\ InitWrite
    /\ CondFwIdle
    /\ UpdateIdle
    /\ AvailIdle
    /\ LoadIdle
    /\ CacheIdle
    /\ OptIdle
    /\ HubIdle
    /\ ReloadIdle
    /\ UnloadIdle
    /\ MigIdle
    /\ FlowIdle
    /\ ExtIdle
    /\ InclIdle

InitUpdateSpec ==
    /\ InitUpdate
    /\ CondFwIdle
    /\ WriteIdle
    /\ AvailIdle
    /\ LoadIdle
    /\ CacheIdle
    /\ OptIdle
    /\ HubIdle
    /\ ReloadIdle
    /\ UnloadIdle
    /\ MigIdle
    /\ FlowIdle
    /\ ExtIdle
    /\ InclIdle

InitAvailSpec ==
    /\ InitAvail
    /\ CondFwIdle
    /\ WriteIdle
    /\ UpdateIdle
    /\ LoadIdle
    /\ CacheIdle
    /\ OptIdle
    /\ HubIdle
    /\ ReloadIdle
    /\ UnloadIdle
    /\ MigIdle
    /\ FlowIdle
    /\ ExtIdle
    /\ InclIdle

InitLoadSpec ==
    /\ InitLoad
    /\ CondFwIdle
    /\ WriteIdle
    /\ UpdateIdle
    /\ AvailIdle
    /\ CacheIdle
    /\ OptIdle
    /\ HubIdle
    /\ ReloadIdle
    /\ UnloadIdle
    /\ MigIdle
    /\ FlowIdle
    /\ ExtIdle
    /\ InclIdle

InitCacheSpec ==
    /\ InitCache
    /\ CondFwIdle
    /\ WriteIdle
    /\ UpdateIdle
    /\ AvailIdle
    /\ LoadIdle
    /\ OptIdle
    /\ HubIdle
    /\ ReloadIdle
    /\ UnloadIdle
    /\ MigIdle
    /\ FlowIdle
    /\ ExtIdle
    /\ InclIdle

InitOptSpec ==
    /\ InitOpt
    /\ CondFwIdle
    /\ WriteIdle
    /\ UpdateIdle
    /\ AvailIdle
    /\ LoadIdle
    /\ CacheIdle
    /\ HubIdle
    /\ ReloadIdle
    /\ UnloadIdle
    /\ MigIdle
    /\ FlowIdle
    /\ ExtIdle
    /\ InclIdle

InitHubSpec ==
    /\ InitHub
    /\ CondFwIdle
    /\ WriteIdle
    /\ UpdateIdle
    /\ AvailIdle
    /\ LoadIdle
    /\ CacheIdle
    /\ OptIdle
    /\ ReloadIdle
    /\ UnloadIdle
    /\ MigIdle
    /\ FlowIdle
    /\ ExtIdle
    /\ InclIdle

InitReloadSpec ==
    /\ InitReload
    /\ CondFwIdle
    /\ WriteIdle
    /\ UpdateIdle
    /\ AvailIdle
    /\ LoadIdle
    /\ CacheIdle
    /\ OptIdle
    /\ HubIdle
    /\ UnloadIdle
    /\ MigIdle
    /\ FlowIdle
    /\ ExtIdle
    /\ InclIdle

InitUnloadSpec ==
    /\ InitUnload
    /\ CondFwIdle
    /\ WriteIdle
    /\ UpdateIdle
    /\ AvailIdle
    /\ LoadIdle
    /\ CacheIdle
    /\ OptIdle
    /\ HubIdle
    /\ ReloadIdle
    /\ MigIdle
    /\ FlowIdle
    /\ ExtIdle
    /\ InclIdle

InitMigSpec ==
    /\ InitMig
    /\ CondFwIdle
    /\ WriteIdle
    /\ UpdateIdle
    /\ AvailIdle
    /\ LoadIdle
    /\ CacheIdle
    /\ OptIdle
    /\ HubIdle
    /\ ReloadIdle
    /\ UnloadIdle
    /\ FlowIdle
    /\ ExtIdle
    /\ InclIdle

InitFlowSpec ==
    /\ InitFlow
    /\ CondFwIdle
    /\ WriteIdle
    /\ UpdateIdle
    /\ AvailIdle
    /\ LoadIdle
    /\ CacheIdle
    /\ OptIdle
    /\ HubIdle
    /\ ReloadIdle
    /\ UnloadIdle
    /\ MigIdle
    /\ ExtIdle
    /\ InclIdle

InitExtSpec ==
    /\ InitExt
    /\ CondFwIdle
    /\ WriteIdle
    /\ UpdateIdle
    /\ AvailIdle
    /\ LoadIdle
    /\ CacheIdle
    /\ OptIdle
    /\ HubIdle
    /\ ReloadIdle
    /\ UnloadIdle
    /\ MigIdle
    /\ FlowIdle
    /\ InclIdle

InitInclSpec ==
    /\ InitIncl
    /\ CondFwIdle
    /\ WriteIdle
    /\ UpdateIdle
    /\ AvailIdle
    /\ LoadIdle
    /\ CacheIdle
    /\ OptIdle
    /\ HubIdle
    /\ ReloadIdle
    /\ UnloadIdle
    /\ MigIdle
    /\ FlowIdle
    /\ ExtIdle

SpecCond == InitCondSpec /\ [][NextCond]_vars

SpecFw == InitFwSpec /\ [][NextFw]_vars

SpecWrite == InitWriteSpec /\ [][NextWrite]_vars

SpecUpdate == InitUpdateSpec /\ [][NextUpdate]_vars

SpecAvail == InitAvailSpec /\ [][NextAvail]_vars

SpecLoad == InitLoadSpec /\ [][NextLoad]_vars

SpecCache == InitCacheSpec /\ [][NextCache]_vars

SpecOpt == InitOptSpec /\ [][NextOpt]_vars

SpecHub == InitHubSpec /\ [][NextHub]_vars

SpecReload == InitReloadSpec /\ [][NextReload]_vars

SpecUnload == InitUnloadSpec /\ [][NextUnload]_vars

SpecMig == InitMigSpec /\ [][NextMig]_vars

SpecFlow == InitFlowSpec /\ [][NextFlow]_vars

SpecExt == InitExtSpec /\ [][NextExt]_vars

SpecIncl == InitInclSpec /\ [][NextIncl]_vars

(***************************************************************************)
(* Properties of the condition evaluator                                   *)
(***************************************************************************)
CondDone == cond_result # "pending"

IsSingle == cond_tree.op = "atom"

TheLit == Literals[cond_tree.a.l]

TheOp == cond_tree.a.o

\* the configuration value of the variable of a single comparison
AHasValue == VarNames[cond_tree.a.v] \in DOMAIN dynamic_config

AValue == dynamic_config[VarNames[cond_tree.a.v]]

\* an unknown operator, a second operator and operand, or a literal that is
\* not an integer where the operator needs one
Malformed(a) ==
    \/ a.o \in UnknownOps
    \/ Literals[a.l].kind = "multi"
    \/ a.o \in {OpGe, OpGt} /\ Literals[a.l].kind # "int"

\* C1 (as claimed): a malformed condition always evaluates to true.
C1_MalformedIsTrue ==
    (IsSingle /\ CondDone /\ Malformed(cond_tree.a)) => cond_result = "true"

\* C2: for an integer literal N and an integer configuration value,
\* "var == N" is true exactly when the value equals N, "var != N" exactly
\* when it differs, and "var >= N" exactly when the value is at least N.
C2_IntegerComparison ==
    (/\ IsSingle /\ CondDone
     /\ TheOp \in {OpEq, OpNe, OpGe}
     /\ TheLit.kind = "int" /\ ~TheLit.quoted
     /\ AHasValue /\ AValue.t = "int")
    => cond_result = PyBoolResult(
           CASE TheOp = OpEq -> AValue.i = TheLit.i
             [] TheOp = OpNe -> AValue.i # TheLit.i
             [] TheOp = OpGe -> AValue.i >= TheLit.i)

\* "a >= 3" evaluated for a = 1 gives false
C2_Witness ==
    /\ condition = <<"a", " ", ">", "=", " ", "3">>
    /\ AHasValue /\ AValue = PyInt(1)
    /\ cond_result = "false"

\* the boolean value of an expression tree, its comparisons evaluated one
\* by one
RECURSIVE TreeValue(_, _)
TreeValue(t, config) ==
    CASE t.op = "atom" ->
            _evaluate_single_condition(AtomText(t.a), config) = "true"
      [] t.op = "and" -> TreeValue(t.l, config) /\ TreeValue(t.r, config)
      [] t.op = "or" -> TreeValue(t.l, config) \/ TreeValue(t.r, config)

RECURSIVE AtomsOf(_)
AtomsOf(t) == IF t.op = "atom" THEN {t.a} ELSE AtomsOf(t.l) \cup AtomsOf(t.r)

\* C3: "or" binds looser than "and" and a parenthesised sub-expression is a
\* unit: the result is the boolean value of the expression tree.
C3_Precedence ==
    (/\ CondDone
     /\ \A a \in AtomsOf(cond_tree) :
            _evaluate_single_condition(AtomText(a), dynamic_config)
                # "TypeError")
    => cond_result = PyBoolResult(TreeValue(cond_tree, dynamic_config))

\* "(a == 1 or a == 2) and b >= 5" evaluated for a = 2, b = 5 gives true
C3_Witness ==
    /\ cond_tree = Bin("and", Bin("or", Leaf(Atom(1, OpEq, 4)),
                                        Leaf(Atom(1, OpEq, 5))),
                       Leaf(Atom(2, OpGe, 6)))
    /\ condition = Render(cond_tree, 0, "root")
    /\ dynamic_config = Config(PyInt(2), PyInt(5))
    /\ cond_result = "true"

\* C4: "==" / "!=" compare as booleans when the literal is true/false,
\* else as integers when literal and value both coerce to an integer, else
\* as strings.
C4_CoercionOrder ==
    (/\ IsSingle /\ CondDone
     /\ TheOp \in {OpEq, OpNe}
     /\ TheLit.kind # "multi"
     /\ AHasValue)
    => LET equal ==
               IF TheLit.kind = "bool" THEN PyTruthy(AValue) = TheLit.b
               ELSE IF TheLit.kind = "int" /\ PyToInt(AValue).ok
               THEN PyToInt(AValue).v = TheLit.i
               ELSE PyToStr(AValue) = TheLit.s
       IN  cond_result = PyBoolResult(IF TheOp = OpEq THEN equal ELSE ~equal)

\* "a == 1" evaluated for a = True compares 1 with 1 and gives true
C4_Witness ==
    /\ condition = <<"a", " ", "=", "=", " ", "1">>
    /\ AHasValue /\ AValue = PyBool(TRUE)
    /\ cond_result = "true"

(***************************************************************************)
(* Properties of the firmware gating                                       *)
(***************************************************************************)
\* what a version text denotes, from VersionTable
Denoted(text) ==
    VersionTable[CHOOSE k \in 1..Len(VersionTable) :
                     VersionTable[k].text = text]

SegmentAt(release, k) == IF k <= Len(release) THEN release[k] ELSE 0

\* release r1 is lower than r2, missing segments counting as 0
ReleaseBelow(r1, r2) ==
    \E k \in 1..(Len(r1) + Len(r2)) :
        /\ \A j \in 1..(k - 1) : SegmentAt(r1, j) = SegmentAt(r2, j)
        /\ SegmentAt(r1, k) < SegmentAt(r2, k)

\* version ordering: by release for two semantic versions, else by string
VersionBelow(text1, text2) ==
    IF Denoted(text1).semantic /\ Denoted(text2).semantic
    THEN ReleaseBelow(Denoted(text1).release, Denoted(text2).release)
    ELSE StrLess(text1, text2)

FirmwareBelowMin ==
    /\ fw_sensor.firmware_min_version # <<>>
    /\ VersionBelow(firmware_version, fw_sensor.firmware_min_version)

FirmwareGate(result) ==
    result.reason # "pending" =>
        /\ FirmwareBelowMin => ~result.include
        /\ ~FirmwareBelowMin => result.reason # "firmware"
        /\ (/\ fw_sensor.firmware_min_version # <<>>
            /\ fw_sensor.condition = <<>>
            /\ fw_sensor.other = "none")
           => (result.include <=> ~FirmwareBelowMin)

\* C5: a register with firmware_min_version is excluded when the firmware
\* is below the minimum and is not excluded on account of its firmware
\* otherwise (so, with no other filter applying, it is included exactly when
\* the firmware is at least the minimum); a register without
\* firmware_min_version is never excluded on account of the firmware.
\* Holds for both _should_include_sensor functions.
C5_FirmwareGate == FirmwareGate(cf_result) /\ FirmwareGate(tl_result)

\* minimum 2.0, firmware 1.5: both filters exclude the register
C5_Witness ==
    /\ fw_sensor.firmware_min_version = <<"2", ".", "0">>
    /\ firmware_version = <<"1", ".", "5">>
    /\ cf_result = Outcome(FALSE, "firmware")
    /\ tl_result.reason # "pending" /\ ~tl_result.include

\* the replacement keys of the sensor, as indexes of KeyTexts
SensorKeys ==
    IF fw_sensor.unique_id \in DOMAIN sensor_replacements
    THEN {k \in 1..Len(KeyTexts) :
            \E j \in 1..Len(sensor_replacements[fw_sensor.unique_id]) :
                sensor_replacements[fw_sensor.unique_id][j].key = KeyTexts[k]}
    ELSE {}

\* keys that apply to the device firmware: semantic keys not above a
\* semantic firmware, or the key equal to a non-semantic firmware tag
ApplicableKeys ==
    IF Denoted(firmware_version).semantic
    THEN {k \in SensorKeys :
            /\ Denoted(KeyTexts[k]).semantic
            /\ ~ReleaseBelow(Denoted(firmware_version).release,
                             Denoted(KeyTexts[k]).release)}
    ELSE {k \in SensorKeys : KeyTexts[k] = firmware_version}

HighestKeys ==
    {k \in ApplicableKeys :
        \A j \in ApplicableKeys :
            ~ReleaseBelow(Denoted(KeyTexts[k]).release,
                          Denoted(KeyTexts[j]).release)}

\* C6 (as claimed): the sensor is stored with the parameters of the
\* replacement whose key is the highest key <= the device firmware (for a
\* non-semantic firmware tag: the key equal to the tag), and unchanged when
\* no key applies.
C6_HighestReplacementApplies ==
    Len(processed_sensors) > 0 =>
        IF ApplicableKeys = {}
        THEN processed_sensors[1] = fw_sensor
        ELSE \E k \in HighestKeys :
                processed_sensors[1] = [fw_sensor EXCEPT !.address = 200 + k]

(***************************************************************************)
(* Properties of async_set_native_value                                    *)
(***************************************************************************)
SeqRange(seq) == {seq[k] : k \in 1..Len(seq)}

RefreshRequests == {k \in 1..Len(events) : events[k] = "refresh_request"}

\* C7: a coordinator refresh is requested if and only if the device write
\* call returned success, and only after that call has completed; a write
\* that returns failure or raises never triggers a refresh.
C7_RefreshIffWriteSucceeded ==
    /\ (RefreshRequests # {}) <=> (write_result = "ok")
    /\ \A k \in RefreshRequests :
          /\ k >= 3
          /\ events[k - 1] = "ok"
          /\ events[k - 2] = "write_call"
    /\ write_result \in {"failed", "raised"} =>
          "refresh_request" \notin SeqRange(events)
    /\ set_pc = "refresh_pending" => write_result = "ok"

C7_Witness ==
    /\ set_pc = "done"
    /\ write_result = "ok"
    /\ events = <<"write_call", "ok", "refresh_request">>

\* C8: when the device write call fails (falsy result or exception), the
\* operation returns an explicit error to its caller, distinguishable from
\* the outcome of a successful write (which returns None).
C8_FailedWriteReturnsError ==
    (set_pc = "done" /\ write_result \in {"failed", "raised"}) =>
        returned # "None"

\* registers that a value of the data type occupies
WordCount(data_type) ==
    CASE data_type \in {"uint16", "int16"} -> 1
      [] data_type \in {"uint32", "int32", "float32"} -> 2
      [] data_type = "float64" -> 4

\* the raw values a data type can hold (the inputs stay below 2^31)
FitsType(data_type, raw) ==
    CASE data_type = "uint16" -> raw \in 0..65535
      [] data_type = "int16" -> raw \in -32768..32767
      [] data_type = "uint32" -> raw >= 0
      [] OTHER -> TRUE

\* C9: for every numeric data type and every display value, the value
\* handed to the device write is a list of 16-bit words, each in 0..65535,
\* whose length equals the register's word count (1, 2 or 4).  A single
\* int is read as a list of one word, and only raw values that the data
\* type can hold are considered.
C9_WriteValueIsWordList ==
    (/\ hub_call.called
     /\ hub_call.list \/ FitsType(register_config.data_type,
                                  hub_call.write_value[1])) =>
        /\ Len(hub_call.write_value) = WordCount(register_config.data_type)
        /\ \A k \in 1..Len(hub_call.write_value) :
              hub_call.write_value[k] \in 0..65535

(***************************************************************************)
(* Properties of _handle_coordinator_update                                *)
(***************************************************************************)
OwnRegister == get_register_data(register_data, OwnKey)

HasProcessedValue ==
    /\ ~OwnRegister.absent
    /\ ~OwnRegister.empty
    /\ OwnRegister.processed_value.t # "none"

\* the processed value as a number, NoNum if it is not one
NumberOf(pv) ==
    CASE pv.t = "num" -> pv.n
      [] pv.t = "str" /\ AllDigits(pv.s) /\ Len(pv.s) > 0 ->
            Num(DigitsVal(pv.s), 0)
      [] OTHER -> NoNum

HasDependency ==
    /\ avail_dependency.configured
    /\ avail_dependency.register_unique_id # <<>>
    /\ avail_dependency.required_value.t # "none"

DependencyPresent == \E k \in 1..Len(coord_data) : coord_data[k].key = DepKey

DependencyData ==
    coord_data[CHOOSE k \in 1..Len(coord_data) : coord_data[k].key = DepKey].data

\* the number a value denotes: itself, or the number a hexadecimal or
\* decimal text spells; NoNum if it denotes none
NumberDenoted(pv) ==
    CASE pv.t = "num" -> pv.n
      [] pv.t = "str" /\ StartsWith(pv.s, <<"0", "x">>) /\ ParseHex(pv.s).ok ->
            Num(ParseHex(pv.s).v, 0)
      [] pv.t = "str" /\ AllDigits(pv.s) -> Num(DigitsVal(pv.s), 0)
      [] OTHER -> NoNum

\* the dependency's numeric value: numeric_value when the register has
\* one, else its processed value
DependencyNumber ==
    IF DependencyData.numeric_value.t # "none"
    THEN NumberDenoted(DependencyData.numeric_value)
    ELSE NumberDenoted(DependencyData.processed_value)

IsShortFloat(reg) ==
    /\ reg.data_type \in {"float", "float32", "float64"}
    /\ reg.count.t # "none"
    /\ \/ reg.data_type \in {"float", "float32"} /\ reg.count.i < 2
       \/ reg.data_type = "float64" /\ reg.count.i < 4

\* a loaded register as it stood in the file
AsInFile(reg) == [reg EXCEPT !.entity_type = "", !.template = ""]

\* C13: every register in the sensors list of a successfully loaded
\* template that has a float data type and an explicit count has count at
\* least 2 (float/float32) or at least 4 (float64); a register violating
\* this never appears in a loaded template.
C13_FloatCountMinimum ==
    (load_done /\ load_result.loaded) =>
        /\ \A k \in 1..Len(load_result.sensors) :
              ~IsShortFloat(load_result.sensors[k])
        /\ \A j \in 1..Len(template_data.sensors) :
              IsShortFloat(template_data.sensors[j]) =>
                 \A k \in 1..Len(load_result.sensors) :
                    AsInFile(load_result.sensors[k]) # template_data.sensors[j]

\* a template with a short float register and a float register with a
\* sufficient explicit count was loaded
C13_Witness ==
    /\ load_done
    /\ load_result.loaded
    /\ \E j \in 1..Len(template_data.sensors) :
          IsShortFloat(template_data.sensors[j])
    /\ \E k \in 1..Len(load_result.sensors) :
          /\ load_result.sensors[k].data_type = "float64"
          /\ load_result.sensors[k].count.t # "none"

RECURSIVE KeepValid(_)
KeepValid(registers) ==
    IF Len(registers) = 0 THEN <<>>
    ELSE (IF Head(registers) \in InvalidRegisters THEN <<>>
          ELSE <<Head(registers)>>)
         \o KeepValid(Tail(registers))

LoadedAsInFile == [k \in 1..Len(load_result.sensors) |->
                      AsInFile(load_result.sensors[k])]

\* C14: a structurally invalid register is excluded from the loaded
\* template while every valid register of the same template is still
\* loaded; the template as a whole is rejected only when it is not a base
\* template and no valid register remains.
C14_InvalidRegisterExcluded ==
    load_done =>
        /\ load_result.loaded =>
              LoadedAsInFile = KeepValid(template_data.sensors)
        /\ ~load_result.loaded =>
              /\ template_data.type # "base_template"
              /\ KeepValid(template_data.sensors) = <<>>

\* an invalid register before a valid one: only the valid one is loaded
C14_Witness ==
    /\ load_done
    /\ load_result.loaded
    /\ Len(template_data.sensors) = 2
    /\ template_data.sensors[1] \in InvalidRegisters
    /\ template_data.sensors[2] \in ValidRegisters
    /\ Len(load_result.sensors) = 1

(***************************************************************************)
(* Properties of the template cache                                        *)
(***************************************************************************)
TemplateFile(path) == IF path = "builtin" THEN builtin_file ELSE custom_file

TemplateContent(template) ==
    [sensors |-> template.sensors, calculated |-> template.calculated,
     binary_sensors |-> template.binary_sensors,
     controls |-> template.controls,
     dynamic_config |-> template.dynamic_config]

\* C12: a template held in the template cache keeps the sensors,
\* calculated, binary_sensors and controls lists and the dynamic_config it
\* was loaded with from its (unchanged) file, whatever flow steps ran
C12_CachedTemplateImmutable ==
    \A path \in {"builtin", "custom"} :
        template_cache[path].loaded =>
            TemplateContent(template_cache[path])
                = TemplateContent(load_single_template(TemplateFile(path)))

\* a custom and a built-in template file load under the same name
SameNameTemplates ==
    /\ load_single_template(builtin_file).loaded
    /\ load_single_template(custom_file).loaded
    /\ load_single_template(custom_file).name
           = load_single_template(builtin_file).name

\* C19: when a custom and a built-in template have the same name,
\* load_templates lists exactly one template of that name, the custom one,
\* and get_template_by_name returns the custom one
C19_CustomOverridesBuiltin ==
    SameNameTemplates =>
        LET name == load_single_template(custom_file).name
        IN  /\ listed_done =>
                /\ Cardinality({i \in 1..Len(listed) :
                                    listed[i].name = name}) = 1
                /\ \A i \in 1..Len(listed) :
                       listed[i].name = name =>
                           listed[i].description = "custom"
            /\ got_name = name =>
                   got.loaded /\ got.description = "custom"

C19_Witness ==
    /\ SameNameTemplates
    /\ listed_done
    /\ got_name = load_single_template(custom_file).name
    /\ got.loaded

(***************************************************************************)
(* Properties of the Range Optimizer                                       *)
(***************************************************************************)
RegisterEnd(register) == register.address + register.word_count

\* the register's whole range [address, address + word_count) lies inside
\* the span, a span of its group
Covers(span, register) ==
    /\ span.register_space = register.register_space
    /\ span.start_address <= register.address
    /\ RegisterEnd(register) <= span.start_address + span.word_count

CoveringSpans(register) ==
    {i \in 1..Len(opt_spans) : Covers(opt_spans[i], register)}

Overlap(a, b) ==
    /\ a.register_space = b.register_space
    /\ a.address < RegisterEnd(b)
    /\ b.address < RegisterEnd(a)

OverlapsAnother(i) ==
    \E j \in 1..Len(opt_registers) :
        j # i /\ Overlap(opt_registers[i], opt_registers[j])

\* C15 as stated: every requested register lies inside exactly one emitted
\* span
C15_CoveredByExactlyOneSpan ==
    opt_done =>
        \A i \in 1..Len(opt_registers) :
            Cardinality(CoveringSpans(opt_registers[i])) = 1

\* C15: every requested register lies inside at least one emitted span of
\* its group, and inside exactly one when it overlaps no other requested
\* register of its group
C15_CoveredBySpan ==
    opt_done =>
        \A i \in 1..Len(opt_registers) :
            /\ CoveringSpans(opt_registers[i]) # {}
            /\ ~OverlapsAnother(i) =>
                   Cardinality(CoveringSpans(opt_registers[i])) = 1

C15_Witness ==
    /\ opt_done
    /\ Len(opt_spans) >= 2
    /\ \E i \in 1..Len(opt_registers) : ~OverlapsAnother(i)
    /\ \E i \in 1..Len(opt_registers) :
           Cardinality(CoveringSpans(opt_registers[i])) = 2

\* C16 as stated: no emitted span is longer than max_span_words
C16_NoSpanLongerThanMax ==
    opt_done =>
        \A i \in 1..Len(opt_spans) :
            opt_spans[i].word_count <= opt_max_span_words

\* C16: no emitted span is longer than max_span_words, except a span that
\* starts with a register wider than max_span_words, which is exactly as
\* long as that register
C16_SpanLengthBound ==
    opt_done =>
        \A i \in 1..Len(opt_spans) :
            \/ opt_spans[i].word_count <= opt_max_span_words
            \/ \E j \in 1..Len(opt_registers) :
                   /\ opt_registers[j].register_space
                          = opt_spans[i].register_space
                   /\ opt_registers[j].address = opt_spans[i].start_address
                   /\ opt_registers[j].word_count = opt_spans[i].word_count

C16_Witness ==
    /\ opt_done
    /\ \E i \in 1..Len(opt_spans) :
           opt_spans[i].word_count > opt_max_span_words
    /\ \E i \in 1..Len(opt_spans) :
           opt_spans[i].word_count = opt_max_span_words

\* the spans the sweep placed the register in
SpansOf(register) ==
    {i \in 1..Len(opt_spans) :
        \E k \in 1..Len(opt_spans[i].registers) :
            opt_spans[i].registers[k] = register}

SameSpan(a, b) == SpansOf(a) \cap SpansOf(b) # {}

Gap(a, b) == b.address - RegisterEnd(a)

\* the address-adjacent pairs of registers of one slave and register space
AdjacentPairs ==
    UNION {LET sorted == SortByAddress(GroupOf(opt_registers,
                                                RegisterSpaces[g]))
           IN  {<<sorted[i], sorted[i + 1]>> : i \in 1..(Len(sorted) - 1)} :
              g \in 1..Len(RegisterSpaces)}

ExampleRegisters ==
    {OptRegister("holding", 10, 1), OptRegister("holding", 11, 1),
     OptRegister("holding", 20, 2)}

IsExample ==
    /\ {opt_registers[i] : i \in 1..Len(opt_registers)} = ExampleRegisters
    /\ opt_max_gap_words = 5
    /\ opt_max_span_words = 20

ExampleSpans ==
    /\ Len(opt_spans) = 2
    /\ opt_spans[1].start_address = 10 /\ opt_spans[1].word_count = 2
    /\ opt_spans[2].start_address = 20 /\ opt_spans[2].word_count = 2

\* C17 as stated: two address-adjacent registers with a gap of at most
\* max_gap_words are in the same span, two with a larger gap are in
\* different spans
C17_GapDecidesMerge ==
    opt_done =>
        /\ \A pair \in AdjacentPairs :
               SameSpan(pair[1], pair[2])
                   <=> Gap(pair[1], pair[2]) <= opt_max_gap_words
        /\ IsExample => ExampleSpans

NoOverlaps == \A i \in 1..Len(opt_registers) : ~OverlapsAnother(i)

\* the start of the span holding the register
SpanStart(register) ==
    opt_spans[CHOOSE i \in SpansOf(register) : TRUE].start_address

\* C17: among registers that do not overlap, two address-adjacent registers
\* with a gap of at most max_gap_words are in the same span exactly when the
\* span, extended to the end of the second one, is no longer than
\* max_span_words, and two with a larger gap are in different spans
C17_GapAndLengthDecideMerge ==
    (opt_done /\ NoOverlaps) =>
        /\ \A pair \in AdjacentPairs :
               IF Gap(pair[1], pair[2]) <= opt_max_gap_words
               THEN SameSpan(pair[1], pair[2])
                        <=> RegisterEnd(pair[2]) - SpanStart(pair[1])
                                <= opt_max_span_words
               ELSE ~SameSpan(pair[1], pair[2])
        /\ IsExample => ExampleSpans

C17_Witness ==
    /\ opt_done
    /\ IsExample
    /\ ExampleSpans

(***************************************************************************)
(* Properties of the hub's transaction channel                             *)
(***************************************************************************)
\* C18: on one hub at most one device transaction is in flight (a write
\* never overlaps a read span or another write), and at most one poll
\* sequence has started and not yet completed
C18_OneTransactionInFlight ==
    /\ Cardinality(in_flight) <= 1
    /\ Len(cycles) <= 1

\* a write waits while a read span is in flight in a running poll sequence
C18_Witness ==
    /\ "read" \in in_flight
    /\ \E w \in Writers : writers[w] = "waiting"
    /\ refresh_requested
    /\ Len(cycles) = 1

(***************************************************************************)
(* Properties of the reload_templates service                              *)
(***************************************************************************)
\* C20: calling reload_templates unloads no config entry and sets none up
\* again
C20_NoEntryReloaded ==
    \A e \in EntryIds :
        /\ reload_unloads[e] = 0
        /\ reload_setups[e] = IF e \in reload_entries THEN 1 ELSE 0

C22_FlagOnlyDuringReload ==
    /\ reload_in_progress => \E c \in Calls : svc_phase[c] = "reloading"
    /\ \A c \in Calls : flag_at_finish[c] # "set"
    /\ \A c \in flag_setters : svc_updated[c] > 0

C22_Witness ==
    /\ \E c \in Calls : svc_phase[c] = "done" /\ svc_updated[c] = 0
    /\ \E c \in Calls : svc_phase[c] = "failed"
                           /\ flag_at_finish[c] = "clear"
    /\ last_unload.is_reload

(***************************************************************************)
(* Properties of the migration                                             *)
(***************************************************************************)
DevicesOfType(entry, type) ==
    SelectSeq(entry.data["devices"], LAMBDA d : d.type = type)

\* C23: after a migration the entry has version 2, a devices list and a hub
\* config, and every later call recognises it as migrated and leaves
\* version and data as they are
C23_MigrationIdempotent ==
    /\ mig_calls >= 1 =>
           /\ mig_entry.version = 2
           /\ "devices" \in DOMAIN mig_entry.data
           /\ "hub" \in DOMAIN mig_entry.data
    /\ mig_calls >= 2 =>
           /\ mig_recognised
           /\ mig_entry = mig_before

\* C24: a migrated entry has a battery device only if the legacy entry has a
\* battery template other than the empty text and none, and an entry with a
\* template has exactly one inverter device, with its prefix, template and
\* slave_id
C24_BatteryOnlyIfConfigured ==
    mig_calls >= 1 =>
        /\ Get(mig_legacy.data, "battery_template", "") \in {"", "none"} =>
               DevicesOfType(mig_entry, "battery") = <<>>
        /\ TruthyText(mig_legacy.data, "template") =>
               DevicesOfType(mig_entry, "inverter")
                   = <<[prefix |-> Get(mig_legacy.data, "prefix", "unknown"),
                        template |-> mig_legacy.data["template"],
                        slave_id |-> Get(mig_legacy.data, "slave_id", 1),
                        type |-> "inverter"]>>

(***************************************************************************)
(* Properties of the config flow and the options flow                      *)
(***************************************************************************)
\* the entry of the host and the port of the last config flow, before it
ExtendedEntry ==
    IF flow_kind = "config"
    THEN ExistingEntry(flow_before, flow_input["host"], flow_input["port"])
    ELSE 0

\* devices is old_devices with the device of the last config flow in the
\* place of the device with its slave_id, or at the end
DeviceAdded(old_devices, devices) ==
    LET same == {i \in 1..Len(old_devices) :
                    old_devices[i]["slave_id"] = flow_input["slave_id"]}
        place == IF same = {} THEN Len(old_devices) + 1 ELSE SetMin(same)
    IN  /\ Len(devices) = IF same = {} THEN Len(old_devices) + 1
                          ELSE Len(old_devices)
        /\ devices[place]["slave_id"] = flow_input["slave_id"]
        /\ devices[place]["template"] = flow_input["template"]
        /\ devices[place]["prefix"] = flow_input["prefix"]
        /\ \A i \in 1..Len(old_devices) :
               i # place => devices[i] = old_devices[i]

\* C25: no two config entries have the same host and port; a config flow
\* that finishes for the host and port of an entry creates no entry: it puts
\* its device into the devices of that entry (in the place of the device
\* with the same slave_id, else at the end), schedules a reload of the entry
\* and aborts with device_added_to_existing_hub
C25_OneEntryPerHostPort ==
    /\ \A i, j \in 1..Len(config_entries) :
           /\ config_entries[i]["host"] = config_entries[j]["host"]
           /\ config_entries[i]["port"] = config_entries[j]["port"]
           => i = j
    /\ ExtendedEntry # 0 =>
           /\ Len(config_entries) = Len(flow_before)
           /\ flow_result = "device_added_to_existing_hub"
           /\ flow_log = <<"update", "reload">>
           /\ flow_entry = ExtendedEntry
           /\ DeviceAdded(flow_before[ExtendedEntry]["devices"],
                          config_entries[ExtendedEntry]["devices"])
           /\ \A i \in 1..Len(config_entries) :
                  i # ExtendedEntry => config_entries[i] = flow_before[i]

\* a config flow replaced a device of the entry of its host and port
C25_Witness ==
    /\ ExtendedEntry # 0
    /\ Len(config_entries) = 1
    /\ Len(config_entries[ExtendedEntry]["devices"])
       = Len(flow_before[ExtendedEntry]["devices"])
    /\ config_entries[ExtendedEntry]["devices"]
       # flow_before[ExtendedEntry]["devices"]

\* the last flow was a config flow that went through the battery workflow
BatteryWorkflowFinished ==
    /\ flow_kind = "config"
    /\ FinalStep(FlowTemplate(flow_input["template"]), flow_input)
       = "with_battery"

\* a device of the list has the type, template, prefix and slave_id
HasDevice(devices, type, template, prefix, slave_id) ==
    \E i \in 1..Len(devices) :
        /\ devices[i]["type"] = type
        /\ devices[i]["template"] = template
        /\ devices[i]["prefix"] = prefix
        /\ devices[i]["slave_id"] = slave_id

\* C26: after a config flow that went through the battery workflow, the
\* devices of the entry it created or extended hold the inverter device and
\* the battery device with the chosen battery template, prefix and slave_id
C26_BatteryWorkflowBothDevices ==
    BatteryWorkflowFinished =>
        LET devices == config_entries[flow_entry]["devices"]
        IN  /\ HasDevice(devices, "inverter", flow_input["template"],
                         flow_input["prefix"], flow_input["slave_id"])
            /\ HasDevice(devices, "battery", flow_input["battery_template"],
                         flow_input["battery_prefix"],
                         flow_input["battery_slave_id"])

\* the same for the flows that create an entry
C26_CreatedEntryBothDevices ==
    BatteryWorkflowFinished /\ flow_result = "create_entry" =>
        LET devices == config_entries[flow_entry]["devices"]
        IN  /\ HasDevice(devices, "inverter", flow_input["template"],
                         flow_input["prefix"], flow_input["slave_id"])
            /\ HasDevice(devices, "battery", flow_input["battery_template"],
                         flow_input["battery_prefix"],
                         flow_input["battery_slave_id"])

\* the entry of the last flow, before the flow and after it
EntryBefore == flow_before[flow_entry]

EntryAfter == config_entries[flow_entry]

\* the last flow was a config flow for a template with a battery_config
\* condition, and the connection type of its input is WINET
ConfigFlowForWinet ==
    /\ flow_kind = "config"
    /\ FlowTemplate(flow_input["template"]).condition # <<>>
    /\ flow_input["connection_type"] = "WINET"

\* the last flow was an options flow that reached apply_config_changes on an
\* entry whose template has a battery_config condition, and the connection
\* type of {**entry.data, **user_input} is WINET
OptionsAppliedForWinet ==
    /\ flow_kind = "options"
    /\ flow_result # "firmware_update"
    /\ FlowTemplate(EntryBefore["template"]).condition # <<>>
    /\ Get(flow_input @@ EntryBefore, "connection_type", "") = "WINET"

DeviceCore(device) ==
    [k \in {"type", "template", "prefix", "slave_id"} |-> device[k]]

DeviceCores(devices) == [i \in 1..Len(devices) |-> DeviceCore(devices[i])]

\* the last flow ran apply_config_changes with battery_config in its input
\* on an entry with a device and at most one battery device
BatteryConfigApplied ==
    /\ flow_kind = "options"
    /\ flow_result # "firmware_update"
    /\ "battery_config" \in DOMAIN flow_input
    /\ Len(EntryBefore["devices"]) >= 1
    /\ Len(OfType(EntryBefore["devices"], "battery")) <= 1

\* C28: after apply_config_changes with battery_config in its input, on an
\* entry with a device and at most one battery device, battery_enabled is
\* (battery_config # none) for the selection that is stored; for none and
\* other the devices hold no battery device, for a battery template they
\* hold exactly one battery device and it uses that template; the devices
\* that are no battery are kept, in their order
C28_BatterySelectionApplied ==
    BatteryConfigApplied =>
        LET selection == EntryAfter["battery_config"]
            batteries == OfType(EntryAfter["devices"], "battery")
        IN  /\ EntryAfter["battery_enabled"] = (selection # "none")
            /\ selection \in {"none", "other"} => batteries = <<>>
            /\ selection \notin {"none", "other"} =>
                   /\ Len(batteries) = 1
                   /\ batteries[1]["template"] = selection
            /\ DeviceCores(NotOfType(EntryAfter["devices"], "battery"))
               = DeviceCores(NotOfType(EntryBefore["devices"], "battery"))

\* a battery template was selected for an entry without battery device
C28_Witness ==
    /\ BatteryConfigApplied
    /\ OfType(EntryBefore["devices"], "battery") = <<>>
    /\ EntryAfter["battery_config"] = "sbr_battery"
    /\ Len(EntryAfter["devices"]) = Len(EntryBefore["devices"]) + 1

\* the last flow was an options flow whose form changes the firmware version
FirmwareChanged ==
    /\ flow_kind = "options"
    /\ "firmware_version" \in DOMAIN flow_input
    /\ flow_input["firmware_version"]
       # Get(EntryBefore, "firmware_version", "1.0.0")

\* the entry holds the new firmware version and the entities of its template
\* filtered for it, and was reloaded after the update
RefilteredThenReloaded ==
    /\ EntryAfter["firmware_version"] = flow_input["firmware_version"]
    /\ EntryAfter["registers"]
       = RegistersFor(EntryAfter["template"], flow_input["firmware_version"])
    /\ flow_log = <<"update", "reload">>

\* C29: when the options flow changes the firmware version, the entities of
\* the entry are filtered for the new version and stored before the reload,
\* whatever else the form submits
C29_FirmwareChangeRefiltered == FirmwareChanged => RefilteredThenReloaded

\* the same for the forms without battery_config
C29_RefilteredWithoutBatteryConfig ==
    FirmwareChanged /\ "battery_config" \notin DOMAIN flow_input
        => RefilteredThenReloaded

\* the input of apply_config_changes in the last options flow: the form of
\* async_step_init, with the form of the battery step when that was shown
AppliedInput ==
    IF flow_result = "battery_config"
    THEN flow_input @@ (CHOOSE form \in BatteryForms : TRUE)
    ELSE flow_input

\* the last flow ran apply_config_changes
ConfigChangesApplied ==
    /\ flow_kind = "options"
    /\ flow_result # "firmware_update"

\* the entry has lost a battery device
BatteryDeviceRemoved ==
    Len(OfType(EntryAfter["devices"], "battery"))
    < Len(OfType(EntryBefore["devices"], "battery"))

\* a dynamic parameter of the input differs from the value the entry had
DiffersFromStored(input) ==
    \E param \in DynamicParams \cap DOMAIN input :
        param \notin DOMAIN EntryBefore \/ EntryBefore[param] # input[param]

ReplacedInput ==
    IF /\ FlowTemplate(EntryBefore["template"]).condition # <<>>
       /\ Get(AppliedInput @@ EntryBefore, "connection_type", "") = "WINET"
    THEN ("battery_config" :> "none" @@ "battery_template" :> "none")
         @@ AppliedInput
    ELSE AppliedInput

ExtendingTemplateLoaded ==
    /\ ext_loader # "none"
    /\ ext_data.extends \in DOMAIN ext_base_templates
    /\ ~ (ext_data.required_fields /\ ext_data.auto_generated_sensors)

\* the entries of base that no entry of custom has the key value of, in
\* their order, are entries of combined, and so are all entries of custom
Combined(key, base, custom, combined) ==
    /\ \A i \in 1..Len(custom) : \E j \in 1..Len(combined) :
           combined[j] = custom[i]
    /\ \A i \in 1..Len(base) :
           IF /\ key \in DOMAIN base[i]
              /\ \E c \in 1..Len(custom) :
                     key \in DOMAIN custom[c] /\ custom[c][key] = base[i][key]
           THEN \A j \in 1..Len(combined) : combined[j] # base[i]
           ELSE \E j \in 1..Len(combined) : combined[j] = base[i]

\* C31: a template that extends an existing base template and is no
\* simplified template is loaded, its calculated entities are those of the
\* base without the ones a custom entity has the unique_id of, plus its own,
\* and its controls those of the base without the ones a custom control has
\* the name of, plus its own
C31_ExtendingTemplateLoads ==
    ExtendingTemplateLoaded =>
        /\ ext_result.loaded
        /\ Combined("unique_id", ext_base_templates["base"].calculated,
                    ext_data.calculated, ext_result.calculated)
        /\ Combined("name", ext_base_templates["base"].controls,
                    ext_data.custom_controls, ext_result.controls)

\* a file that extends no existing base template is loaded from its own
\* sensors
C31_StandardTemplateLoads ==
    /\ ext_loader = "load_single_template"
    /\ ext_data.extends \notin DOMAIN ext_base_templates
    /\ ext_data.sensors # <<>>
    => ext_result.loaded

(***************************************************************************)
(* Properties of the condition filter of the template loader               *)
(***************************************************************************)
\* _should_include_sensor has excluded the sensor because of its condition
ExcludedForCondition ==
    /\ ~ incl_result.include
    /\ incl_result.reason \in {"condition", "legacy_condition"}

\* C32: a sensor with a condition is excluded on account of the condition
\* exactly when _evaluate_condition returns false for it
C32_ExcludedIffConditionFalse ==
    incl_result.reason # "pending" =>
        (ExcludedForCondition
         <=> _evaluate_condition(incl_condition, incl_config) = "false")

\* the part of C32 that holds: a condition that evaluates to false excludes
C32_FalseConditionExcludes ==
    /\ incl_result.reason # "pending"
    /\ _evaluate_condition(incl_condition, incl_config) = "false"
    => ExcludedForCondition

=============================================================================
